---- MODULE Spec2Model ----
(***************************************************************************)
(* Calendar page layout of remarkablymoving: the reMarkable Pro Move       *)
(* generator (remarkable_pdf_generator.py) and the earlier reMarkable Pro  *)
(* generator (attached_assets/simple_calendar_generator_*.py), and the     *)
(* request handlers of the web application (app.py) around them.           *)
(*                                                                         *)
(* One behaviour is one generation call.  The document is the sequence of  *)
(* pages; a page holds its time labels and, in drawing order, the canvas   *)
(* calls that depend on the input (event rectangles, event texts, links).  *)
(* The input-independent decoration (background, borders, grid lines, day  *)
(* headers, notes box) is not recorded.                                    *)
(*                                                                         *)
(* Lengths are integers: 1 mm = 78120 units and 1 point = 27559 units      *)
(* (1 inch = 72 points = 25.4 mm), so that every row height, column width  *)
(* and per-minute offset of both generators is a whole number of units.    *)
(***************************************************************************)
EXTENDS Integers, Sequences, FiniteSets, TLC

VARIABLES entry, week_start, week_data, google_events, events, pc, i, pages, bookmarks,
          saved, err,
          start_date, response, session, fetch, disk, reqs

\* the state of the web application (app.py): the startDate of the planner
\* request being served, the last response sent, the browser session, the
\* chunked fetch of /api/events, the files in the working directory and the
\* planner requests served side by side
app_vars == <<start_date, response, session, fetch, disk, reqs>>

vars ==
    <<entry, week_start, week_data, google_events, events, pc, i, pages, bookmarks,
      saved, err, app_vars>>

(***************************************************************************)
(* Units                                                                   *)
(***************************************************************************)
mm == 78120
inch == 1984248
pt == inch \div 72

Min(a, b) == IF a < b THEN a ELSE b

(***************************************************************************)
(* Values of event fields.  A field is a record of one shape per type; the *)
(* kind "nokey" stands for a key that is absent from the mapping.          *)
(*   time text  : "hm" is the text h:m (any integers), "txt" other text    *)
(*   date text  : "ymd" is the %Y-%m-%d text of the day with ordinal ord   *)
(*   text       : id names the string, len is its length                   *)
(***************************************************************************)
TStr(h, m) == [k |-> "hm", h |-> h, m |-> m]
TTxt == [k |-> "txt", h |-> 0, m |-> 0]
TEmpty == [k |-> "empty", h |-> 0, m |-> 0]
TNoKey == [k |-> "nokey", h |-> 0, m |-> 0]

DStr(n) == [k |-> "ymd", ord |-> n]
DTxt == [k |-> "txt", ord |-> 0]
DEmpty == [k |-> "empty", ord |-> 0]
DNoKey == [k |-> "nokey", ord |-> 0]

NInt(v) == [k |-> "int", v |-> v]
NNoKey == [k |-> "nokey", v |-> 0]

SStr(id, len) == [k |-> "str", id |-> id, len |-> len]
SNoKey == [k |-> "nokey", id |-> "", len |-> 0]

\* dict.get(key, default)
get(field, default) == IF field.k = "nokey" THEN default ELSE field

\* Python truthiness of a string field read with .get(key) or .get(key, '')
truthy(field) == field.k \notin {"nokey", "empty"}

\* datetime.datetime.strptime(s, '%H:%M').time(): ok = FALSE is ValueError
strptime_HM(s) ==
    [ok |-> s.k = "hm" /\ s.h \in 0..23 /\ s.m \in 0..59, h |-> s.h, m |-> s.m]

\* datetime.datetime.strptime(s, '%Y-%m-%d').date(): ok = FALSE is ValueError
strptime_Ymd(s) == [ok |-> s.k = "ymd", ord |-> s.ord]

\* date.strftime('%Y-%m-%d')
strftime_Ymd(n) == DStr(n)

\* datetime.time(hour, minute): ok = FALSE is ValueError
time(hour, minute) ==
    [ok |-> hour \in 0..23 /\ minute \in 0..59, h |-> hour, m |-> minute]

(***************************************************************************)
(* Canvas calls.  One record shape for all of them:                        *)
(*   op    "rect" | "text" | "link"                                        *)
(*   ev    index of the event in the list the page was given (0: none)     *)
(*   x,y,w,h  the call's coordinates (rect: lower-left corner and size)    *)
(*   what  "block" | "title" | "time" | "extra" | the link's target        *)
(*   id,len,dots  the string drawn: len characters of string id, followed  *)
(*                by dots full stops                                       *)
(*   t1,t2 the start_time and end_time locals the call was computed from   *)
(***************************************************************************)
HM(h, m) == <<h, m>>

Call(op, ev, x, y, w, h, what, id, len, dots, t1, t2) ==
    [op |-> op, ev |-> ev, x |-> x, y |-> y, w |-> w, h |-> h, what |-> what,
     id |-> id, len |-> len, dots |-> dots, t1 |-> t1, t2 |-> t2]

\* result of processing one event: the calls made, and whether it raised
Done(calls) == [raised |-> FALSE, err |-> "", calls |-> calls]
Raise(e, calls) == [raised |-> TRUE, err |-> e, calls |-> calls]

(***************************************************************************)
(* remarkable_pdf_generator.py: page sizes                                 *)
(***************************************************************************)
REMARKABLE_MOVE_WIDTH_MM == 91
REMARKABLE_MOVE_HEIGHT_MM == 163
REMARKABLE_MOVE_WIDTH_PT == REMARKABLE_MOVE_WIDTH_MM * mm
REMARKABLE_MOVE_HEIGHT_PT == REMARKABLE_MOVE_HEIGHT_MM * mm
landscape_size == <<REMARKABLE_MOVE_HEIGHT_PT, REMARKABLE_MOVE_WIDTH_PT>>
portrait_size == <<REMARKABLE_MOVE_WIDTH_PT, REMARKABLE_MOVE_HEIGHT_PT>>

time_slots == 31

\* the time label of row r (0-based): f"{hour:02d}:{minute:02d}"
label_time(r) == HM(7 + (r \div 2), (r % 2) * 30)

(***************************************************************************)
(* create_weekly_view_with_events: grid layout                             *)
(***************************************************************************)
weekly_margin_left == 8 * mm
weekly_margin_right == 8 * mm
weekly_margin_top == 12 * mm
weekly_margin_bottom == 8 * mm
weekly_grid_width == landscape_size[1] - weekly_margin_left - weekly_margin_right
weekly_grid_height == landscape_size[2] - weekly_margin_top - weekly_margin_bottom
weekly_time_col_width == 15 * mm
\* day_col_width as a seventh of the whole grid, time column included
weekly_day_col_width_of_grid == weekly_grid_width \div 7
weekly_day_col_width == (weekly_grid_width - weekly_time_col_width) \div 7
weekly_header_height == 7 * mm
weekly_row_height == (weekly_grid_height - weekly_header_height) \div time_slots
weekly_grid_left == weekly_margin_left
weekly_grid_right == weekly_margin_left + weekly_grid_width
weekly_grid_top == landscape_size[2] - weekly_margin_top
weekly_grid_bottom == weekly_margin_bottom

weekly_labels ==
    [r \in 1..time_slots |->
        [y |-> weekly_grid_top - weekly_header_height - ((r - 1) * weekly_row_height)
                 - (weekly_row_height \div 2),
         t |-> label_time(r - 1)]]

(***************************************************************************)
(* create_weekly_view_with_events: the events loop                         *)
(***************************************************************************)
\* start_time_str and start_time of one event
weekly_start_time(event) ==
    LET start_time_str == get(event.start_time, get(event.time, TStr(9, 0)))
        p == strptime_HM(start_time_str)
    IN  IF p.ok THEN time(p.h, p.m) ELSE time(9, 0)

\* weekly_end_time with the hour capped at 21 instead of 22
weekly_end_time_cap21(event, start_time) ==
    LET end_time_str == get(event.end_time, TEmpty)
    IN  IF ~truthy(end_time_str)
        THEN LET duration == get(event.duration, NInt(60)).v
                 end_hour == start_time.h + ((start_time.m + duration) \div 60)
                 end_minute == (start_time.m + duration) % 60
             IN  time(Min(end_hour, 21), end_minute)
        ELSE LET p == strptime_HM(end_time_str)
             IN  IF p.ok THEN time(p.h, p.m)
                 ELSE time(start_time.h + 1, start_time.m)

\* end_time of one event; ok = FALSE: datetime.time(...) raised ValueError
weekly_end_time(event, start_time) ==
    LET end_time_str == get(event.end_time, TEmpty)
    IN  IF ~truthy(end_time_str)
        THEN LET duration == get(event.duration, NInt(60)).v
                 end_hour == start_time.h + ((start_time.m + duration) \div 60)
                 end_minute == (start_time.m + duration) % 60
             IN  time(Min(end_hour, 22), end_minute)
        ELSE LET p == strptime_HM(end_time_str)
             IN  IF p.ok THEN time(p.h, p.m)
                 ELSE time(start_time.h + 1, start_time.m)

\* title = event.get('title', event.get('summary', 'Event'))
weekly_title(event) == get(event.title, get(event.summary, SStr("Event", 5)))

\* weekly_event_calls keeping title[:max_chars] before the ".."
weekly_event_calls_cut_at_max(event, n, day_offset, start_time, end_time) ==
    LET start_hour60 == start_time.h * 60 + start_time.m
        end_hour60 == end_time.h * 60 + end_time.m
    IN  IF ~(7 * 60 <= start_hour60 /\ start_hour60 <= 22 * 60) THEN <<>>
        ELSE
        LET start_slot30 == start_hour60 - 7 * 60
            end_slot30 == end_hour60 - 7 * 60
            event_x == weekly_grid_left + weekly_time_col_width
                         + (day_offset * weekly_day_col_width) + 1 * mm
            event_y_top == weekly_grid_top - weekly_header_height
                             - ((start_slot30 * weekly_row_height) \div 30)
            event_height == (((end_slot30 - start_slot30) * weekly_row_height) \div 30)
                              - (mm \div 2)
            event_width == weekly_day_col_width - 2 * mm
            title == weekly_title(event)
            max_chars == (10 * event_width) \div (13 * pt)
            cut == title.len > max_chars
            text_y == event_y_top - 2 * mm
            t1 == HM(start_time.h, start_time.m)
            t2 == HM(end_time.h, end_time.m)
        IN  IF ~(event_height > 0) THEN <<>>
            ELSE
              <<Call("rect", n, event_x, event_y_top - event_height, event_width,
                     event_height, "block", "", 0, 0, t1, t2)>>
              \o (IF text_y > event_y_top - event_height + 1 * mm
                  THEN <<Call("text", n, event_x + (mm \div 2), text_y, 0, 0, "title",
                              title.id,
                              IF cut THEN Min(title.len, max_chars) ELSE title.len,
                              IF cut THEN 2 ELSE 0, t1, t2)>>
                  ELSE <<>>)
              \o (IF event_height > 5 * mm
                  THEN <<Call("text", n, event_x + (mm \div 2), text_y - 2 * mm, 0, 0,
                              "time", "%H:%M", 5, 0, t1, t1)>>
                  ELSE <<>>)

\* start_hour and end_hour are kept in minutes (hour * 60 + minute), the slots
\* in thirtieths of a slot: start_slot30 = start_slot * 30.
weekly_event_calls(event, n, day_offset, start_time, end_time) ==
    LET start_hour60 == start_time.h * 60 + start_time.m
        end_hour60 == end_time.h * 60 + end_time.m
    IN  IF ~(7 * 60 <= start_hour60 /\ start_hour60 <= 22 * 60) THEN <<>>
        ELSE
        LET start_slot30 == start_hour60 - 7 * 60
            end_slot30 == end_hour60 - 7 * 60
            event_x == weekly_grid_left + weekly_time_col_width
                         + (day_offset * weekly_day_col_width) + 1 * mm
            event_y_top == weekly_grid_top - weekly_header_height
                             - ((start_slot30 * weekly_row_height) \div 30)
            event_height == (((end_slot30 - start_slot30) * weekly_row_height) \div 30)
                              - (mm \div 2)
            event_width == weekly_day_col_width - 2 * mm
            title == weekly_title(event)
            max_chars == (10 * event_width) \div (13 * pt)
            cut == title.len > max_chars
            text_y == event_y_top - 2 * mm
            t1 == HM(start_time.h, start_time.m)
            t2 == HM(end_time.h, end_time.m)
        IN  IF ~(event_height > 0) THEN <<>>
            ELSE
              <<Call("rect", n, event_x, event_y_top - event_height, event_width,
                     event_height, "block", "", 0, 0, t1, t2)>>
              \o (IF text_y > event_y_top - event_height + 1 * mm
                  THEN <<Call("text", n, event_x + (mm \div 2), text_y, 0, 0, "title",
                              title.id,
                              IF cut THEN Min(title.len, max_chars - 2) ELSE title.len,
                              IF cut THEN 2 ELSE 0, t1, t2)>>
                  ELSE <<>>)
              \o (IF event_height > 5 * mm
                  THEN <<Call("text", n, event_x + (mm \div 2), text_y - 2 * mm, 0, 0,
                              "time", "%H:%M", 5, 0, t1, t1)>>
                  ELSE <<>>)

\* one iteration of "for event in events"
weekly_event(event, n, week_start_date) ==
    LET event_date_str == event.date
        d == strptime_Ymd(event_date_str)
        day_offset == d.ord - week_start_date
    IN  IF ~truthy(event_date_str) THEN Done(<<>>)
        ELSE IF ~d.ok THEN Done(<<>>)
        ELSE IF ~(0 <= day_offset /\ day_offset < 7) THEN Done(<<>>)
        ELSE LET start_time == weekly_start_time(event)
                 end_time == weekly_end_time(event, start_time)
             IN  IF ~end_time.ok THEN Raise("ValueError", <<>>)
                 ELSE Done(weekly_event_calls(event, n, day_offset, start_time, end_time))

\* weekly_events_loop putting each event's calls before those already made
RECURSIVE weekly_events_loop_newest_first(_, _, _, _)
weekly_events_loop_newest_first(evs, n, week_start_date, calls) ==
    IF n > Len(evs) THEN Done(calls)
    ELSE LET r == weekly_event(evs[n], n, week_start_date)
         IN  IF r.raised THEN Raise(r.err, r.calls \o calls)
             ELSE weekly_events_loop_newest_first(evs, n + 1, week_start_date,
                                                  r.calls \o calls)

RECURSIVE weekly_events_loop(_, _, _, _)
weekly_events_loop(evs, n, week_start_date, calls) ==
    IF n > Len(evs) THEN Done(calls)
    ELSE LET r == weekly_event(evs[n], n, week_start_date)
         IN  IF r.raised THEN Raise(r.err, calls \o r.calls)
             ELSE weekly_events_loop(evs, n + 1, week_start_date, calls \o r.calls)

\* The page the call leaves on the canvas: final is TRUE once c.showPage() ran.
\* date is the date the page is titled with, day its number among the day pages.
Page(kind, day, date, size, labels, r) ==
    [kind |-> kind, day |-> day, date |-> date, size |-> size, labels |-> labels,
     calls |-> r.calls, final |-> ~r.raised]

create_weekly_view_with_events(week_start_date, evs) ==
    LET r == weekly_events_loop(evs, 1, week_start_date, <<>>)
    IN  [raised |-> r.raised, err |-> r.err,
         page |-> Page("week", 0, week_start_date, landscape_size, weekly_labels, r)]

(***************************************************************************)
(* create_daily_view_with_events: grid layout                              *)
(***************************************************************************)
daily_margin_left == 6 * mm
daily_margin_right == 6 * mm
daily_margin_top == 18 * mm
daily_margin_bottom == 30 * mm
daily_grid_width == portrait_size[1] - daily_margin_left - daily_margin_right
daily_grid_height == portrait_size[2] - daily_margin_top - daily_margin_bottom
daily_time_col_width == 14 * mm
daily_event_col_width == daily_grid_width - daily_time_col_width
daily_row_height == daily_grid_height \div time_slots
daily_grid_left == daily_margin_left
daily_grid_right == daily_margin_left + daily_grid_width
daily_grid_top == portrait_size[2] - daily_margin_top
daily_grid_bottom == daily_margin_bottom

daily_labels ==
    [r \in 1..time_slots |->
        [y |-> daily_grid_top - ((r - 1) * daily_row_height) - (daily_row_height \div 2),
         t |-> label_time(r - 1)]]

\* daily_back_link with the target misspelt: no bookmark has that key
daily_back_link_week_view ==
    Call("link", 0, 5 * mm, portrait_size[2] - 9 * mm, 20 * mm, 3 * mm, "week_view",
         "", 0, 0, HM(0, 0), HM(0, 0))

\* c.linkRect("", "weekly_view", (5*mm, h - 9*mm, 25*mm, h - 6*mm))
daily_back_link ==
    Call("link", 0, 5 * mm, portrait_size[2] - 9 * mm, 20 * mm, 3 * mm, "weekly_view",
         "", 0, 0, HM(0, 0), HM(0, 0))

(***************************************************************************)
(* create_daily_view_with_events: the events loop                          *)
(***************************************************************************)
daily_start_time(event) ==
    LET start_time_str == get(event.start_time, get(event.time, TStr(9, 0)))
        p == strptime_HM(start_time_str)
    IN  IF p.ok THEN time(p.h, p.m) ELSE time(9, 0)

daily_end_time(event, start_time) ==
    LET end_time_str == get(event.end_time, TEmpty)
    IN  IF ~truthy(end_time_str)
        THEN LET duration == get(event.duration, NInt(60)).v
                 end_hour == start_time.h + ((start_time.m + duration) \div 60)
                 end_minute == (start_time.m + duration) % 60
             IN  time(Min(end_hour, 22), end_minute)
        ELSE LET p == strptime_HM(end_time_str)
             IN  IF p.ok THEN time(p.h, p.m)
                 ELSE time(start_time.h + 1, start_time.m)

daily_title(event) == get(event.title, get(event.summary, SStr("Event", 5)))

\* extra_text = location or description
daily_extra_text(event) ==
    LET location == get(event.location, SStr("", 0))
        description == get(event.description, SStr("", 0))
    IN  IF location.len > 0 THEN location ELSE description

daily_event_calls(event, n, start_time, end_time) ==
    LET start_hour60 == start_time.h * 60 + start_time.m
        end_hour60 == end_time.h * 60 + end_time.m
    IN  IF ~(7 * 60 <= start_hour60 /\ start_hour60 <= 22 * 60) THEN <<>>
        ELSE
        LET start_slot30 == start_hour60 - 7 * 60
            end_slot30 == end_hour60 - 7 * 60
            event_x == daily_grid_left + daily_time_col_width + ((3 * mm) \div 2)
            event_y_top == daily_grid_top - ((start_slot30 * daily_row_height) \div 30)
            event_height == (((end_slot30 - start_slot30) * daily_row_height) \div 30)
                              - 1 * mm
            event_width == daily_event_col_width - 3 * mm
            title == daily_title(event)
            text_y == event_y_top - 3 * mm
            max_width == event_width - 2 * mm
            cut == title.len * 3 * mm > 2 * max_width
            keep == ((2 * max_width) \div (3 * mm)) - 2
            extra_text == daily_extra_text(event)
            t1 == HM(start_time.h, start_time.m)
            t2 == HM(end_time.h, end_time.m)
        IN  IF ~(event_height > 0) THEN <<>>
            ELSE
              <<Call("rect", n, event_x, event_y_top - event_height, event_width,
                     event_height, "block", "", 0, 0, t1, t2)>>
              \o (IF text_y > event_y_top - event_height + 1 * mm
                  THEN <<Call("text", n, event_x + 1 * mm, text_y, 0, 0, "title",
                              title.id,
                              IF cut THEN Min(title.len, keep) ELSE title.len,
                              IF cut THEN 2 ELSE 0, t1, t2)>>
                       \o (IF event_height > 6 * mm
                           THEN <<Call("text", n, event_x + 1 * mm, text_y - 3 * mm, 0, 0,
                                       "time", "%H:%M - %H:%M", 13, 0, t1, t2)>>
                           ELSE <<>>)
                       \o (IF event_height > 10 * mm /\ extra_text.len > 0
                           THEN <<Call("text", n, event_x + 1 * mm, text_y - 6 * mm, 0, 0,
                                       "extra", extra_text.id, Min(extra_text.len, 40),
                                       IF extra_text.len > 40 THEN 3 ELSE 0, t1, t2)>>
                           ELSE <<>>)
                  ELSE <<>>)

\* one iteration of "for event in day_events"
daily_event(event, n) ==
    LET start_time == daily_start_time(event)
        end_time == daily_end_time(event, start_time)
    IN  IF ~end_time.ok THEN Raise("ValueError", <<>>)
        ELSE Done(daily_event_calls(event, n, start_time, end_time))

\* day_events holds the indices (in evs) of the event objects of the day
RECURSIVE daily_events_loop(_, _, _, _)
daily_events_loop(evs, day_events, k, calls) ==
    IF k > Len(day_events) THEN Done(calls)
    ELSE LET r == daily_event(evs[day_events[k]], day_events[k])
         IN  IF r.raised THEN Raise(r.err, calls \o r.calls)
             ELSE daily_events_loop(evs, day_events, k + 1, calls \o r.calls)

create_daily_view_with_events(date, page_num, evs, day_events) ==
    LET r == daily_events_loop(evs, day_events, 1, <<daily_back_link>>)
    IN  [raised |-> r.raised, err |-> r.err,
         page |-> Page("day", page_num - 1, date, portrait_size, daily_labels, r)]

(***************************************************************************)
(* generate_calendar_pdf                                                   *)
(***************************************************************************)
\* day_key numbered from the loop index i instead of i + 1
day_key_from_0(k) == <<"day_0", "day_1", "day_2", "day_3", "day_4", "day_5", "day_6">>[k]

\* f"day_{k}"
day_key(k) == <<"day_1", "day_2", "day_3", "day_4", "day_5", "day_6", "day_7">>[k]

\* c.bookmarkPage(key): the bookmark lands on the page being drawn
bookmarkPage(marks, key, drawn) == Append(marks, [key |-> key, page |-> Len(drawn) + 1])

\* the filter "for event in events: ... day_events.append(event)", as indices
RECURSIVE day_events_of(_, _, _)
day_events_of(evs, n, date) ==
    IF n > Len(evs) THEN <<>>
    ELSE LET event_date_str == evs[n].date
             d == strptime_Ymd(event_date_str)
         IN  (IF truthy(event_date_str) /\ d.ok /\ d.ord = date THEN <<n>> ELSE <<>>)
             \o day_events_of(evs, n + 1, date)

\* the entry points that end in generate_calendar_pdf of the Move generator;
\* transform_google_calendar_events stands for the adapter followed by
\* generate_calendar_pdf on the list it returns, generate_planner_pdf for the
\* request handler of app.py, which calls generate_pdf_from_week_data
MoveEntries ==
    {"generate_calendar_pdf", "generate_pdf_from_week_data",
     "transform_google_calendar_events", "generate_planner_pdf"}

\* canvas.Canvas(...), the weekly_view bookmark and page 1
generate_calendar_pdf_week ==
    /\ pc = "start"
    /\ entry \in MoveEntries
    /\ LET r == create_weekly_view_with_events(week_start, events)
       IN  /\ bookmarks' = bookmarkPage(bookmarks, "weekly_view", pages)
           /\ pages' = Append(pages, r.page)
           /\ pc' = IF r.raised THEN "raised" ELSE "days"
           /\ err' = r.err
    /\ i' = 0
    /\ UNCHANGED <<app_vars, entry, week_start, week_data, google_events, events, saved>>

\* one iteration of "for i, day in enumerate(days)": pages 2-8
generate_calendar_pdf_day ==
    /\ pc = "days"
    /\ entry \in MoveEntries
    /\ i < 7
    /\ LET date == week_start + i
           day_events == day_events_of(events, 1, date)
           r == create_daily_view_with_events(date, i + 2, events, day_events)
       IN  /\ bookmarks' = bookmarkPage(bookmarks, day_key(i + 1), pages)
           /\ pages' = Append(pages, r.page)
           /\ pc' = IF r.raised THEN "raised" ELSE "days"
           /\ err' = r.err
           /\ i' = IF r.raised THEN i ELSE i + 1
    /\ UNCHANGED <<app_vars, entry, week_start, week_data, google_events, events, saved>>

\* c.save() one iteration early, after the sixth day page
generate_calendar_pdf_save_early ==
    /\ pc = "days"
    /\ entry \in MoveEntries
    /\ i = 6
    /\ saved' = TRUE
    /\ pc' = "done"
    /\ UNCHANGED <<app_vars, entry, week_start, week_data, google_events, events, i, pages, bookmarks, err>>

\* c.save()
generate_calendar_pdf_save ==
    /\ pc = "days"
    /\ entry \in MoveEntries
    /\ i = 7
    /\ saved' = TRUE
    /\ pc' = "done"
    /\ UNCHANGED <<app_vars, entry, week_start, week_data, google_events, events, i, pages, bookmarks, err>>

(***************************************************************************)
(* generate_pdf_from_week_data                                             *)
(* week_data['events'] is a sequence of [day_key, day_events] items in     *)
(* the mapping's iteration order.                                          *)
(***************************************************************************)
\* str.lower() on the day keys used as input
lower(sx) ==
    CASE sx = "Monday" -> "monday"
      [] sx = "TUESDAY" -> "tuesday"
      [] sx = "Sunday" -> "sunday"
      [] OTHER -> sx

\* day_map numbering the days 1 .. 7
day_map_from_1 ==
    [monday |-> 1, tuesday |-> 2, wednesday |-> 3, thursday |-> 4,
     friday |-> 5, saturday |-> 6, sunday |-> 7]

\* day_map (lines 513-516)
day_map ==
    [monday |-> 0, tuesday |-> 1, wednesday |-> 2, thursday |-> 3,
     friday |-> 4, saturday |-> 5, sunday |-> 6]

Event(date, start_time, tm, end_time, duration, title, summary, description, location) ==
    [date |-> date, start_time |-> start_time, time |-> tm, end_time |-> end_time,
     duration |-> duration, title |-> title, summary |-> summary,
     description |-> description, location |-> location]

\* one iteration of "for event in day_events": ok = FALSE is the ValueError of
\* the unguarded strptime
week_data_event(event, event_date) ==
    LET start_time_str == get(event.time, TStr(9, 0))
        duration == get(event.duration, NInt(60))
        start_time == strptime_HM(start_time_str)
        end_hour == start_time.h + ((start_time.m + duration.v) \div 60)
        end_minute == (start_time.m + duration.v) % 60
    IN  [ok |-> start_time.ok,
         event |-> Event(strftime_Ymd(event_date), start_time_str, TNoKey,
                         TStr(end_hour, end_minute), duration,
                         get(event.title, SStr("Untitled", 8)), SNoKey,
                         get(event.description, SStr("", 0)), SNoKey)]

RECURSIVE week_data_day(_, _, _, _)
week_data_day(day_events, k, event_date, out) ==
    IF k > Len(day_events) THEN [ok |-> TRUE, events |-> out]
    ELSE LET r == week_data_event(day_events[k], event_date)
         IN  IF ~r.ok THEN [ok |-> FALSE, events |-> out]
             ELSE week_data_day(day_events, k + 1, event_date, Append(out, r.event))

RECURSIVE week_data_items(_, _, _, _)
week_data_items(items, k, week_start_date, all_events) ==
    IF k > Len(items) THEN [ok |-> TRUE, events |-> all_events]
    ELSE IF lower(items[k].day_key) \in DOMAIN day_map
    THEN LET day_offset == day_map[lower(items[k].day_key)]
             r == week_data_day(items[k].day_events, 1, week_start_date + day_offset,
                                all_events)
         IN  IF ~r.ok THEN r
             ELSE week_data_items(items, k + 1, week_start_date, r.events)
    ELSE week_data_items(items, k + 1, week_start_date, all_events)

\* up to the call of generate_calendar_pdf
generate_pdf_from_week_data ==
    /\ pc = "transform"
    /\ entry \in {"generate_pdf_from_week_data", "generate_planner_pdf"}
    /\ LET r == week_data_items(week_data, 1, week_start, <<>>)
       IN  /\ events' = r.events
           /\ pc' = IF r.ok THEN "start" ELSE "raised"
           /\ err' = IF r.ok THEN "" ELSE "ValueError"
    /\ UNCHANGED <<app_vars, entry, week_start, week_data, google_events, i, pages, bookmarks, saved>>

(***************************************************************************)
(* transform_google_calendar_events                                        *)
(* A Google Calendar event has start and end objects and optional summary, *)
(* description and location.  start is                                     *)
(*   "dateTime"  a timestamp: its day (date = DStr(ordinal)), hour, minute *)
(*   "bad"       a dateTime text fromisoformat rejects                     *)
(*   "date"      an all-day event: date is the text under start.date       *)
(*   "none"      neither key (or no start object)                          *)
(* and end is "dateTime", "bad" or "nokey" (no end.dateTime).  The two     *)
(* timestamps of an event carry the same UTC offset.                       *)
(***************************************************************************)
GTime(k, date, h, m) == [k |-> k, date |-> date, h |-> h, m |-> m]
GEvent(start, end, summary, description, location) ==
    [start |-> start, end |-> end, summary |-> summary, description |-> description,
     location |-> location]

\* transform_google_event with the all-day span 09:00-10:00 (60 minutes)
transform_google_event_one_hour(event) ==
    LET start_dt == event.start
        end_dt == event.end
        duration == ((end_dt.date.ord - start_dt.date.ord) * 24 * 60)
                      + (end_dt.h * 60 + end_dt.m) - (start_dt.h * 60 + start_dt.m)
        transformed_event(date_str, start_time, end_time, du) ==
            Event(date_str, start_time, TNoKey, end_time, NInt(du),
                  get(event.summary, SStr("Untitled Event", 14)), SNoKey,
                  get(event.description, SStr("", 0)), get(event.location, SStr("", 0)))
    IN  IF start_dt.k \in {"dateTime", "bad"}
        THEN IF start_dt.k = "bad" THEN Raise("ValueError", <<>>)
             ELSE IF end_dt.k = "nokey" THEN Raise("KeyError", <<>>)
             ELSE IF end_dt.k = "bad" THEN Raise("ValueError", <<>>)
             ELSE Done(<<transformed_event(strftime_Ymd(start_dt.date.ord),
                                           TStr(start_dt.h, start_dt.m),
                                           TStr(end_dt.h, end_dt.m), duration)>>)
        ELSE IF start_dt.k = "date"
        THEN Done(<<transformed_event(start_dt.date, TStr(9, 0), TStr(10, 0), 60)>>)
        ELSE Done(<<>>)

\* one iteration of "for event in google_events"
transform_google_event(event) ==
    LET start_dt == event.start
        end_dt == event.end
        duration == ((end_dt.date.ord - start_dt.date.ord) * 24 * 60)
                      + (end_dt.h * 60 + end_dt.m) - (start_dt.h * 60 + start_dt.m)
        transformed_event(date_str, start_time, end_time, du) ==
            Event(date_str, start_time, TNoKey, end_time, NInt(du),
                  get(event.summary, SStr("Untitled Event", 14)), SNoKey,
                  get(event.description, SStr("", 0)), get(event.location, SStr("", 0)))
    IN  IF start_dt.k \in {"dateTime", "bad"}
        THEN IF start_dt.k = "bad" THEN Raise("ValueError", <<>>)
             ELSE IF end_dt.k = "nokey" THEN Raise("KeyError", <<>>)
             ELSE IF end_dt.k = "bad" THEN Raise("ValueError", <<>>)
             ELSE Done(<<transformed_event(strftime_Ymd(start_dt.date.ord),
                                           TStr(start_dt.h, start_dt.m),
                                           TStr(end_dt.h, end_dt.m), duration)>>)
        ELSE IF start_dt.k = "date"
        THEN Done(<<transformed_event(start_dt.date, TStr(9, 0), TStr(17, 0), 480)>>)
        ELSE Done(<<>>)

RECURSIVE transform_google_events_loop(_, _, _)
transform_google_events_loop(evs, n, transformed_events) ==
    IF n > Len(evs) THEN Done(transformed_events)
    ELSE LET r == transform_google_event(evs[n])
         IN  IF r.raised THEN Raise(r.err, transformed_events)
             ELSE transform_google_events_loop(evs, n + 1, transformed_events \o r.calls)

\* transform_google_calendar_events storing the default title in the caller's
\* records (event.setdefault('summary', ...)) instead of only reading them
transform_google_calendar_events_in_place ==
    /\ pc = "transform"
    /\ entry = "transform_google_calendar_events"
    /\ LET r == transform_google_events_loop(google_events, 1, <<>>)
       IN  /\ events' = r.calls
           /\ pc' = IF r.raised THEN "raised" ELSE "start"
           /\ err' = r.err
    /\ google_events' =
          [n \in DOMAIN google_events |->
              [google_events[n] EXCEPT !.summary = get(@, SStr("Untitled Event", 14))]]
    /\ UNCHANGED <<app_vars, entry, week_start, week_data, i, pages, bookmarks, saved>>

\* the adapter, up to the call of generate_calendar_pdf on its result
transform_google_calendar_events ==
    /\ pc = "transform"
    /\ entry = "transform_google_calendar_events"
    /\ LET r == transform_google_events_loop(google_events, 1, <<>>)
       IN  /\ events' = r.calls
           /\ pc' = IF r.raised THEN "raised" ELSE "start"
           /\ err' = r.err
    /\ UNCHANGED <<app_vars, entry, week_start, week_data, google_events, i, pages, bookmarks, saved>>

(***************************************************************************)
(* attached_assets/simple_calendar_generator: the reMarkable Pro variant.  *)
(* It reads event['date'], event['start_time'], event['end_time'] and      *)
(* event['title'] by subscript (KeyError when absent) and parses without   *)
(* try/except.                                                             *)
(***************************************************************************)
REMARKABLE_WIDTH == 1620
REMARKABLE_HEIGHT == 2160
simple_landscape_size == <<REMARKABLE_HEIGHT * pt, REMARKABLE_WIDTH * pt>>
simple_portrait_size == <<REMARKABLE_WIDTH * pt, REMARKABLE_HEIGHT * pt>>

\* int(a / b) for b > 0: truncation toward zero
int_div(a, b) == IF a >= 0 THEN a \div b ELSE -((-a) \div b)

simple_weekly_x_start == inch
simple_weekly_y_start == simple_landscape_size[2] - 2 * inch
simple_weekly_col_width == (simple_landscape_size[1] - 2 * inch) \div 8
simple_weekly_row_height == (simple_landscape_size[2] - 4 * inch) \div 31

simple_weekly_labels ==
    [r \in 1..31 |->
        [y |-> simple_weekly_y_start - (r - 1) * simple_weekly_row_height,
         t |-> label_time(r - 1)]]

\* c.linkRect(day, f"day_{i+1}", link_rect) for i in 0..6
simple_weekly_links ==
    [k \in 1..7 |->
        Call("link", 0, simple_weekly_x_start + k * simple_weekly_col_width,
             simple_weekly_y_start, simple_weekly_col_width, simple_weekly_row_height,
             day_key(k), "", 0, 0, HM(0, 0), HM(0, 0))]

simple_weekly_event(event, n, week_start_date) ==
    LET d == strptime_Ymd(event.date)
        day_offset == d.ord - week_start_date
        start_time == strptime_HM(event.start_time)
        end_time == strptime_HM(event.end_time)
        start_hour60 == start_time.h * 60 + start_time.m
        end_hour60 == end_time.h * 60 + end_time.m
        start_row == int_div((start_hour60 - 7 * 60) * 2, 60)
        end_row == int_div((end_hour60 - 7 * 60) * 2, 60)
        event_x == simple_weekly_x_start + (day_offset + 1) * simple_weekly_col_width
                     + 5 * pt
        event_y_start == simple_weekly_y_start - start_row * simple_weekly_row_height
        event_height == (end_row - start_row) * simple_weekly_row_height
        block == Call("rect", n, event_x, event_y_start - event_height,
                      simple_weekly_col_width - 10 * pt, event_height, "block", "", 0, 0,
                      HM(start_time.h, start_time.m), HM(end_time.h, end_time.m))
    IN  IF event.date.k = "nokey" THEN Raise("KeyError", <<>>)
        ELSE IF ~d.ok THEN Raise("ValueError", <<>>)
        ELSE IF ~(0 <= day_offset /\ day_offset < 7) THEN Done(<<>>)
        ELSE IF event.start_time.k = "nokey" THEN Raise("KeyError", <<>>)
        ELSE IF ~start_time.ok THEN Raise("ValueError", <<>>)
        ELSE IF event.end_time.k = "nokey" THEN Raise("KeyError", <<>>)
        ELSE IF ~end_time.ok THEN Raise("ValueError", <<>>)
        ELSE IF ~(7 * 60 <= start_hour60 /\ start_hour60 <= 22 * 60) THEN Done(<<>>)
        ELSE IF event.title.k = "nokey" THEN Raise("KeyError", <<block>>)
        ELSE Done(<<block,
                    Call("text", n, event_x + 5 * pt, event_y_start - 15 * pt, 0, 0,
                         "title", event.title.id, Min(event.title.len, 20), 0,
                         block.t1, block.t2)>>)

RECURSIVE simple_weekly_events_loop(_, _, _, _)
simple_weekly_events_loop(evs, n, week_start_date, calls) ==
    IF n > Len(evs) THEN Done(calls)
    ELSE LET r == simple_weekly_event(evs[n], n, week_start_date)
         IN  IF r.raised THEN Raise(r.err, calls \o r.calls)
             ELSE simple_weekly_events_loop(evs, n + 1, week_start_date,
                                            calls \o r.calls)

simple_create_weekly_view_with_events(week_start_date, evs) ==
    LET r == simple_weekly_events_loop(evs, 1, week_start_date, simple_weekly_links)
    IN  [raised |-> r.raised, err |-> r.err,
         page |-> Page("week", 0, week_start_date, simple_landscape_size, simple_weekly_labels, r)]

simple_daily_x_start == inch
simple_daily_y_start == simple_portrait_size[2] - 2 * inch
simple_daily_row_height == (simple_portrait_size[2] - 4 * inch) \div 31

simple_daily_labels ==
    [r \in 1..31 |->
        [y |-> simple_daily_y_start - (r - 1) * simple_daily_row_height,
         t |-> label_time(r - 1)]]

\* c.linkRect("<- Back to Weekly", "weekly_view", (inch, h - 1.5*inch, 3*inch, h - inch))
simple_daily_back_link ==
    Call("link", 0, inch, simple_portrait_size[2] - (3 * inch) \div 2, 2 * inch,
         inch \div 2, "weekly_view", "", 0, 0, HM(0, 0), HM(0, 0))

simple_daily_event(event, n) ==
    LET start_time == strptime_HM(event.start_time)
        end_time == strptime_HM(event.end_time)
        start_hour60 == start_time.h * 60 + start_time.m
        end_hour60 == end_time.h * 60 + end_time.m
        start_row == int_div((start_hour60 - 7 * 60) * 2, 60)
        end_row == int_div((end_hour60 - 7 * 60) * 2, 60)
        event_x == simple_daily_x_start + (3 * inch) \div 2 + 10 * pt
        event_y_start == simple_daily_y_start - start_row * simple_daily_row_height
        event_height == (end_row - start_row) * simple_daily_row_height
        event_width == simple_portrait_size[1] - simple_daily_x_start
                         - (3 * inch) \div 2 - 2 * inch
        t1 == HM(start_time.h, start_time.m)
        t2 == HM(end_time.h, end_time.m)
        block == Call("rect", n, event_x, event_y_start - event_height, event_width,
                      event_height, "block", "", 0, 0, t1, t2)
        description == get(event.description, SStr("", 0))
    IN  IF event.start_time.k = "nokey" THEN Raise("KeyError", <<>>)
        ELSE IF ~start_time.ok THEN Raise("ValueError", <<>>)
        ELSE IF event.end_time.k = "nokey" THEN Raise("KeyError", <<>>)
        ELSE IF ~end_time.ok THEN Raise("ValueError", <<>>)
        ELSE IF ~(7 * 60 <= start_hour60 /\ start_hour60 <= 22 * 60) THEN Done(<<>>)
        ELSE IF event.title.k = "nokey" THEN Raise("KeyError", <<block>>)
        ELSE Done(<<block,
                    Call("text", n, event_x + 5 * pt, event_y_start - 20 * pt, 0, 0,
                         "title", event.title.id, event.title.len, 0, t1, t2)>>
                  \o (IF description.len > 0
                      THEN <<Call("text", n, event_x + 5 * pt, event_y_start - 35 * pt,
                                  0, 0, "extra", description.id,
                                  Min(description.len, 50), 0, t1, t2)>>
                      ELSE <<>>))

RECURSIVE simple_daily_events_loop(_, _, _, _)
simple_daily_events_loop(evs, day_events, k, calls) ==
    IF k > Len(day_events) THEN Done(calls)
    ELSE LET r == simple_daily_event(evs[day_events[k]], day_events[k])
         IN  IF r.raised THEN Raise(r.err, calls \o r.calls)
             ELSE simple_daily_events_loop(evs, day_events, k + 1, calls \o r.calls)

simple_create_daily_view_with_events(date, page_num, evs, day_events) ==
    LET r == simple_daily_events_loop(evs, day_events, 1, <<simple_daily_back_link>>)
    IN  [raised |-> r.raised, err |-> r.err,
         page |-> Page("day", page_num - 1, date,
                      simple_portrait_size, simple_daily_labels, r)]

\* [e for e in events if e.get('date') == date.strftime('%Y-%m-%d')], as indices
RECURSIVE simple_day_events_of(_, _, _)
simple_day_events_of(evs, n, date) ==
    IF n > Len(evs) THEN <<>>
    ELSE (IF evs[n].date = strftime_Ymd(date) THEN <<n>> ELSE <<>>)
         \o simple_day_events_of(evs, n + 1, date)

simple_generate_calendar_pdf_week ==
    /\ pc = "start"
    /\ entry = "simple_generate_calendar_pdf"
    /\ LET r == simple_create_weekly_view_with_events(week_start, events)
       IN  /\ bookmarks' = bookmarkPage(bookmarks, "weekly_view", pages)
           /\ pages' = Append(pages, r.page)
           /\ pc' = IF r.raised THEN "raised" ELSE "days"
           /\ err' = r.err
    /\ i' = 0
    /\ UNCHANGED <<app_vars, entry, week_start, week_data, google_events, events, saved>>

simple_generate_calendar_pdf_day ==
    /\ pc = "days"
    /\ entry = "simple_generate_calendar_pdf"
    /\ i < 7
    /\ LET date == week_start + i
           day_events == simple_day_events_of(events, 1, date)
           r == simple_create_daily_view_with_events(date, i + 2, events, day_events)
       IN  /\ bookmarks' = bookmarkPage(bookmarks, day_key(i + 1), pages)
           /\ pages' = Append(pages, r.page)
           /\ pc' = IF r.raised THEN "raised" ELSE "days"
           /\ err' = r.err
           /\ i' = IF r.raised THEN i ELSE i + 1
    /\ UNCHANGED <<app_vars, entry, week_start, week_data, google_events, events, saved>>

simple_generate_calendar_pdf_save ==
    /\ pc = "days"
    /\ entry = "simple_generate_calendar_pdf"
    /\ i = 7
    /\ saved' = TRUE
    /\ pc' = "done"
    /\ UNCHANGED <<app_vars, entry, week_start, week_data, google_events, events, i, pages, bookmarks, err>>

(***************************************************************************)
(* app.py: POST /api/generate-planner-pdf, one request                     *)
(* The handler passes weekData and startDate to                            *)
(* generate_pdf_from_week_data, reads the file it wrote, removes it and    *)
(* returns its bytes; any exception becomes a JSON error with status 500.  *)
(* The file is the document (pages) once saved is TRUE.                    *)
(***************************************************************************)
\* the last request served, by handler and arguments, and its answer
Response(endpoint, args, status, body) ==
    [endpoint |-> endpoint, args |-> args, status |-> status, body |-> body]

\* request.get_json() up to the strptime of startDate in
\* generate_pdf_from_week_data
generate_planner_pdf_request ==
    /\ entry = "generate_planner_pdf"
    /\ pc = "request"
    /\ LET d == strptime_Ymd(start_date)
       IN  /\ pc' = IF d.ok THEN "transform" ELSE "raised"
           /\ err' = IF d.ok THEN "" ELSE "ValueError"
           /\ week_start' = IF d.ok THEN d.ord ELSE week_start
    /\ UNCHANGED <<app_vars, entry, week_data, google_events, events, i, pages,
                   bookmarks, saved>>

\* the except branch answering with the bytes of the pages drawn so far
generate_planner_pdf_except_partial ==
    /\ entry = "generate_planner_pdf"
    /\ pc = "raised"
    /\ response' = Response("generate_planner_pdf", start_date, 200, pages)
    /\ pc' = "failed"
    /\ UNCHANGED <<entry, week_start, week_data, google_events, events, i, pages,
                   bookmarks, saved, err, start_date, session, fetch, disk, reqs>>

\* except Exception: jsonify({"error": ...}), 500
generate_planner_pdf_except ==
    /\ entry = "generate_planner_pdf"
    /\ pc = "raised"
    /\ response' = Response("generate_planner_pdf", start_date, 500, <<>>)
    /\ pc' = "failed"
    /\ UNCHANGED <<entry, week_start, week_data, google_events, events, i, pages,
                   bookmarks, saved, err, start_date, session, fetch, disk, reqs>>

\* open(output_file).read(), os.remove(output_file), return pdf_content, 200
generate_planner_pdf_return ==
    /\ entry = "generate_planner_pdf"
    /\ pc = "done"
    /\ response' = Response("generate_planner_pdf", start_date, 200, pages)
    /\ saved' = FALSE
    /\ pc' = "returned"
    /\ UNCHANGED <<entry, week_start, week_data, google_events, events, i, pages,
                   bookmarks, err, start_date, session, fetch, disk, reqs>>

(***************************************************************************)
(* app.py: POST /api/generate-planner-pdf, two requests served by two      *)
(* threads of the development server (app.run, threaded by default).       *)
(* reqs[r] is request r: its startDate and weekData, its position in the   *)
(* handler, the bytes it read and its status.  disk maps the names of the  *)
(* files in the working directory to their contents; the document          *)
(* generated from a weekData for a week is [week_data, week_start].        *)
(***************************************************************************)
\* f"remarkable_calendar_{start_date.replace('-', '')}.pdf"
pdf_filename(sd) == [fmt |-> "remarkable_calendar_%Y%m%d.pdf", ord |-> sd.ord]

\* generate_pdf_from_week_data(week_data, start_date, pdf_filename) up to
\* c.save(), which creates or overwrites the file
generate_planner_pdf_generate(r) ==
    /\ r \in DOMAIN reqs
    /\ reqs[r].pc = "generate"
    /\ LET output_file == pdf_filename(reqs[r].start_date)
           document == [week_data |-> reqs[r].week_data,
                        week_start |-> reqs[r].start_date.ord]
       IN  disk' = [f \in DOMAIN disk \cup {output_file} |->
                       IF f = output_file THEN document ELSE disk[f]]
    /\ reqs' = [reqs EXCEPT ![r].pc = "read"]
    /\ UNCHANGED <<entry, week_start, week_data, google_events, events, pc, i, pages,
                   bookmarks, saved, err, start_date, response, session, fetch>>

\* with open(output_file, 'rb') as pdf_file: pdf_content = pdf_file.read();
\* FileNotFoundError goes to the except branch (status 500)
generate_planner_pdf_read(r) ==
    /\ r \in DOMAIN reqs
    /\ reqs[r].pc = "read"
    /\ LET output_file == pdf_filename(reqs[r].start_date)
       IN  reqs' = IF output_file \in DOMAIN disk
                   THEN [reqs EXCEPT ![r].pc = "remove", ![r].body = disk[output_file]]
                   ELSE [reqs EXCEPT ![r].pc = "returned", ![r].status = 500]
    /\ UNCHANGED <<entry, week_start, week_data, google_events, events, pc, i, pages,
                   bookmarks, saved, err, start_date, response, session, fetch, disk>>

\* os.remove(output_file) and return pdf_content, 200; FileNotFoundError goes
\* to the except branch (status 500)
generate_planner_pdf_remove(r) ==
    /\ r \in DOMAIN reqs
    /\ reqs[r].pc = "remove"
    /\ LET output_file == pdf_filename(reqs[r].start_date)
       IN  IF output_file \in DOMAIN disk
           THEN /\ disk' = [f \in DOMAIN disk \ {output_file} |-> disk[f]]
                /\ reqs' = [reqs EXCEPT ![r].pc = "returned", ![r].status = 200]
           ELSE /\ disk' = disk
                /\ reqs' = [reqs EXCEPT ![r].pc = "returned", ![r].status = 500,
                                        ![r].body = <<>>]
    /\ UNCHANGED <<entry, week_start, week_data, google_events, events, pc, i, pages,
                   bookmarks, saved, err, start_date, response, session, fetch>>

(***************************************************************************)
(* app.py: the OAuth handlers and the two API handlers, for the requests   *)
(* one browser session sends one after another.                            *)
(*   session   state: the value /auth/google stored ("" when absent);      *)
(*             credentials: "" when absent, else named by the              *)
(*             authorization code they were exchanged for                  *)
(*   fetch     the chunk loop of /api/events with full_range=true for one  *)
(*             calendar: time_min, time_max, current_time_min and the      *)
(*             events().list requests made so far                          *)
(* A timestamp text is [t, sfx]: t seconds after 2015-01-01T00:00:00 UTC,  *)
(* written %Y-%m-%dT%H:%M:%S followed by sfx, "Z" or "+00:00".             *)
(***************************************************************************)
\* days from 2015-01-01 to January 1 of year y (2016, 2020, ... are leap)
YearStart(y) == 365 * (y - 2015) + ((y - 2013) \div 4)

\* the text of second s of day doy (from 0) of year y
Timestamp(y, doy, s, sfx) == [t |-> (YearStart(y) + doy) * 86400 + s, sfx |-> sfx]

\* datetime.year
year_of(t) ==
    CHOOSE y \in 2015..2040 :
        YearStart(y) * 86400 <= t /\ t < YearStart(y + 1) * 86400

\* a < b on two timestamp texts (str.__lt__): the first differing character
\* decides, and "+" sorts before "Z"
str_less(a, b) == a.t < b.t \/ (a.t = b.t /\ a.sfx = "+00:00" /\ b.sfx = "Z")

\* /auth/google: flow.authorization_url() makes a fresh state
google_auth ==
    /\ fetch.pc = "idle"
    /\ \E state \in {"state 1", "state 2"} :
          /\ session' = [session EXCEPT !.state = state]
          /\ response' = Response("google_auth", <<>>, 302, <<>>)
    /\ UNCHANGED <<entry, week_start, week_data, google_events, events, pc, i, pages,
                   bookmarks, saved, err, start_date, fetch, disk, reqs>>

\* /oauth2callback?state=..&code=..: "" is an absent argument, and
\* flow.fetch_token raises for a code Google does not know
oauth2callback ==
    /\ fetch.pc = "idle"
    /\ \E state \in {"", "state 1", "state 2"}, code \in {"", "code 1", "code 2", "bad code"} :
          LET args == [state |-> state, code |-> code]
          IN  IF state = "" \/ code = ""
              THEN /\ response' = Response("oauth2callback", args, 400, <<>>)
                   /\ session' = session
              ELSE IF code = "bad code"
              THEN /\ response' = Response("oauth2callback", args, 500, <<>>)
                   /\ session' = session
              ELSE /\ response' = Response("oauth2callback", args, 302, <<>>)
                   /\ session' = [state |-> "", credentials |-> code]
    /\ UNCHANGED <<entry, week_start, week_data, google_events, events, pc, i, pages,
                   bookmarks, saved, err, start_date, fetch, disk, reqs>>

\* /auth/status
auth_status ==
    /\ fetch.pc = "idle"
    /\ response' = Response("auth_status", <<>>, 200, <<session.credentials # "">>)
    /\ UNCHANGED <<entry, week_start, week_data, google_events, events, pc, i, pages,
                   bookmarks, saved, err, start_date, session, fetch, disk, reqs>>

\* /auth/logout removing only the OAuth state
logout_keeps_credentials ==
    /\ fetch.pc = "idle"
    /\ session' = [session EXCEPT !.state = ""]
    /\ response' = Response("logout", <<>>, 200, <<>>)
    /\ UNCHANGED <<entry, week_start, week_data, google_events, events, pc, i, pages,
                   bookmarks, saved, err, start_date, fetch, disk, reqs>>

\* /auth/logout: session.clear()
logout ==
    /\ fetch.pc = "idle"
    /\ session' = [state |-> "", credentials |-> ""]
    /\ response' = Response("logout", <<>>, 200, <<>>)
    /\ UNCHANGED <<entry, week_start, week_data, google_events, events, pc, i, pages,
                   bookmarks, saved, err, start_date, fetch, disk, reqs>>

\* /api/calendars: calendarList().list().execute() returns or raises
get_calendars ==
    /\ fetch.pc = "idle"
    /\ IF session.credentials = ""
       THEN response' = Response("get_calendars", <<>>, 401, <<>>)
       ELSE \/ response' = Response("get_calendars", <<>>, 200, <<"calendarList.list">>)
            \/ response' = Response("get_calendars", <<>>, 500, <<>>)
    /\ UNCHANGED <<entry, week_start, week_data, google_events, events, pc, i, pages,
                   bookmarks, saved, err, start_date, session, fetch, disk, reqs>>

\* the number of events().list requests after which the model stops following
\* the chunk loop
MaxRequests == 20

\* /api/events?full_range=true&calendar_ids=..&time_min=..&time_max=.. up to
\* the chunk loop of the one calendar; <<>> is an absent argument, and status
\* 0 is a request that has no answer yet
get_events ==
    /\ fetch.pc = "idle"
    /\ \E calendar_ids \in {<<>>, <<"primary">>},
          time_min, time_max \in
              {<<>>} \cup {Timestamp(ymd[1], ymd[2], 0, sfx) :
                              ymd \in {<<2024, 0>>, <<2024, 152>>, <<2029, 334>>,
                                       <<2031, 151>>},
                              sfx \in {"Z", "+00:00"}} :
          LET args == [calendar_ids |-> calendar_ids, time_min |-> time_min,
                       time_max |-> time_max]
              tmin == IF time_min = <<>> THEN Timestamp(2015, 0, 0, "Z") ELSE time_min
              tmax == IF time_max = <<>> THEN Timestamp(2030, 364, 86399, "Z")
                      ELSE time_max
          IN  IF session.credentials = ""
              THEN /\ response' = Response("get_events", args, 401, <<>>)
                   /\ fetch' = fetch
              ELSE IF calendar_ids = <<>>
              THEN /\ response' = Response("get_events", args, 400, <<>>)
                   /\ fetch' = fetch
              ELSE /\ response' = Response("get_events", args, 0, <<>>)
                   /\ fetch' = [pc |-> "loop", args |-> args, time_min |-> tmin,
                                time_max |-> tmax, current_time_min |-> tmin,
                                chunks |-> <<>>]
    /\ UNCHANGED <<entry, week_start, week_data, google_events, events, pc, i, pages,
                   bookmarks, saved, err, start_date, session, disk, reqs>>

\* one iteration of "while current_time_min < time_max": the request
\* events().list(timeMin, timeMax).execute() returns or raises
get_events_chunk ==
    /\ fetch.pc = "loop"
    /\ str_less(fetch.current_time_min, fetch.time_max)
    /\ Len(fetch.chunks) < MaxRequests
    /\ LET chunk_start == fetch.current_time_min.t
           chunk_end == Min(chunk_start + 365 * 86400, fetch.time_max.t)
           made == Append(fetch.chunks, [timeMin |-> chunk_start, timeMax |-> chunk_end])
       IN  \/ fetch' = [fetch EXCEPT !.chunks = made, !.pc = "raised"]
           \/ fetch' = [fetch EXCEPT
                           !.chunks = made,
                           !.current_time_min = [t |-> chunk_end, sfx |-> "+00:00"],
                           !.pc = IF year_of(chunk_start) >= 2030 THEN "break" ELSE "loop"]
    /\ UNCHANGED <<entry, week_start, week_data, google_events, events, pc, i, pages,
                   bookmarks, saved, err, start_date, response, session, disk, reqs>>

\* the loop is left (condition false, break, or the except of the calendar)
\* and the handler answers
get_events_return ==
    /\ \/ fetch.pc \in {"raised", "break"}
       \/ fetch.pc = "loop" /\ ~str_less(fetch.current_time_min, fetch.time_max)
    /\ response' = Response("get_events", fetch.args, 200, fetch.chunks)
    /\ fetch' = [pc |-> "idle"]
    /\ UNCHANGED <<entry, week_start, week_data, google_events, events, pc, i, pages,
                   bookmarks, saved, err, start_date, session, disk, reqs>>

(***************************************************************************)
(* Inputs                                                                  *)
(***************************************************************************)
MaxEvents == 2

SeqsUpTo(S, n) == UNION {[1..k -> S] : k \in 0..n}

\* ordinals of two Mondays (2024-01-01 and 2024-01-08)
WeekStarts == {738886, 738893}

Standup == SStr("Standup", 7)

\* Event lists: a small pool of events, in lists of up to MaxEvents.
PoolDates(ws) == {DNoKey, DTxt, DStr(ws), DStr(ws + 1), DStr(ws + 7)}
PoolStarts == {TStr(9, 0), TStr(6, 0)}
PoolEnds == {TNoKey, TStr(9, 30)}

EventPool(ws) ==
    {Event(d, st, TNoKey, en, NNoKey, Standup, SNoKey, SNoKey, SNoKey) :
        d \in PoolDates(ws), st \in PoolStarts, en \in PoolEnds}

\* week_data: (day key, event) pairs in iteration order, equal keys adjacent
WDKeys == {"monday", "TUESDAY", "holiday"}
WDPoolTimes == {TNoKey, TStr(9, 0), TTxt}
WDPoolDurations == {NNoKey, NInt(30)}

WDEvent(tm, du) == Event(DNoKey, TNoKey, tm, TNoKey, du, Standup, SNoKey, SNoKey, SNoKey)

WDPairs(times, durations) ==
    {[day_key |-> dk, event |-> WDEvent(tm, du)] :
        dk \in WDKeys, tm \in times, du \in durations}

Grouped(pairs) ==
    \A a, b, c \in 1..Len(pairs) :
        (a < b /\ b < c /\ pairs[a].day_key = pairs[c].day_key)
            => pairs[b].day_key = pairs[a].day_key

\* the items of the mapping: one per key, with the key's events in order
RECURSIVE items_of(_)
items_of(pairs) ==
    IF pairs = <<>> THEN <<>>
    ELSE LET n == Len(pairs)
             rest == items_of(SubSeq(pairs, 1, n - 1))
             m == Len(rest)
         IN  IF m > 0 /\ rest[m].day_key = pairs[n].day_key
             THEN [rest EXCEPT ![m].day_events = Append(@, pairs[n].event)]
             ELSE Append(rest, [day_key |-> pairs[n].day_key,
                                day_events |-> <<pairs[n].event>>])

\* Google Calendar events: all-day ones, timed ones, and the shapes the
\* adapter skips or fails on
GNone == GTime("none", DNoKey, 0, 0)
GBad == GTime("bad", DNoKey, 0, 0)
GNoKey == GTime("nokey", DNoKey, 0, 0)
GAllDay(date) == GTime("date", date, 0, 0)
GDateTime(n, h, m) == GTime("dateTime", DStr(n), h, m)

GooglePool(ws) ==
    {GEvent(GAllDay(DStr(ws)), GNoKey, Standup, SNoKey, SNoKey),
     GEvent(GDateTime(ws + 1, 9, 0), GDateTime(ws + 1, 9, 30), Standup, SNoKey, SNoKey),
     GEvent(GDateTime(ws + 1, 9, 0), GNoKey, Standup, SNoKey, SNoKey),
     GEvent(GNone, GNoKey, Standup, SNoKey, SNoKey)}

OneGoogleStarts(ws) ==
    {GNone, GBad}
    \cup {GAllDay(d) : d \in {DTxt} \cup {DStr(ws + d) : d \in {-1, 0, 3, 6, 7}}}
    \cup {GDateTime(ws + d, h, m) : d \in {0, 6}, h \in {6, 9, 21, 23}, m \in {0, 15, 30}}
OneGoogleEnds(ws) ==
    {GNoKey, GBad}
    \cup {GDateTime(ws + d, h, m) : d \in {0, 6, 7}, h \in {0, 9, 10, 23}, m \in {0, 30}}
OneGoogleEvents(ws) ==
    {GEvent(st, en, su, SNoKey, lo) :
        st \in OneGoogleStarts(ws), en \in OneGoogleEnds(ws),
        su \in {SNoKey, Standup}, lo \in {SNoKey, SStr("Room 4", 6)}}

\* no request served yet, a new session, no fetch running, no file written
InitApp ==
    /\ response = Response("", <<>>, 0, <<>>)
    /\ session = [state |-> "", credentials |-> ""]
    /\ fetch = [pc |-> "idle"]
    /\ disk = <<>>
    /\ reqs = <<>>

\* nothing drawn yet
InitPages ==
    /\ i = 0
    /\ pages = <<>>
    /\ bookmarks = <<>>
    /\ saved = FALSE
    /\ err = ""

InitRest ==
    /\ InitPages
    /\ start_date = DNoKey
    /\ InitApp

Init ==
    /\ week_start \in WeekStarts
    /\ \/ /\ entry \in {"generate_calendar_pdf", "simple_generate_calendar_pdf"}
          /\ events \in SeqsUpTo(EventPool(week_start), MaxEvents)
          /\ week_data = <<>>
          /\ google_events = <<>>
          /\ pc = "start"
       \/ /\ entry = "generate_pdf_from_week_data"
          /\ \E pairs \in SeqsUpTo(WDPairs(WDPoolTimes, WDPoolDurations), MaxEvents) :
                /\ Grouped(pairs)
                /\ week_data = items_of(pairs)
          /\ google_events = <<>>
          /\ events = <<>>
          /\ pc = "transform"
       \/ /\ entry = "transform_google_calendar_events"
          /\ google_events \in SeqsUpTo(GooglePool(week_start), MaxEvents)
          /\ week_data = <<>>
          /\ events = <<>>
          /\ pc = "transform"
    /\ InitRest

\* One event, with every combination of its time fields.
OneHours == {6, 7, 9, 21, 22, 23}
OneMinutes == {0, 15, 30, 45}
OneStarts == {TNoKey, TTxt, TStr(24, 0), TStr(9, 60)}
                \cup {TStr(h, m) : h \in OneHours, m \in OneMinutes}
OneTimes == {TNoKey, TTxt, TStr(10, 30)}
OneEnds == {TNoKey, TEmpty, TTxt, TStr(8, 0), TStr(9, 8), TStr(9, 30), TStr(10, 0),
            TStr(17, 0),
            TStr(22, 0), TStr(22, 30), TStr(23, 30)}
OneDurations == {NNoKey, NInt(-480), NInt(-30), NInt(0), NInt(30), NInt(60), NInt(90),
                 NInt(2000)}
OneDates(ws) == {DNoKey, DEmpty, DTxt} \cup {DStr(ws + d) : d \in -1..7}

\* every date with the default time fields, two dates with all time fields
OneEvents(ws) ==
    {Event(d, st, TNoKey, TNoKey, du, Standup, SNoKey, SNoKey, SNoKey) :
        d \in OneDates(ws), st \in OneStarts, du \in {NNoKey, NInt(60)}}
    \cup
    {Event(d, st, tm, en, du, Standup, SNoKey, SNoKey, SNoKey) :
        d \in {DStr(ws), DStr(ws + 6)}, st \in OneStarts, tm \in OneTimes,
        en \in OneEnds, du \in OneDurations}

InitEvent ==
    /\ week_start \in WeekStarts
    /\ \/ /\ entry \in {"generate_calendar_pdf", "simple_generate_calendar_pdf"}
          /\ \E e \in OneEvents(week_start) : events = <<e>>
          /\ week_data = <<>>
          /\ google_events = <<>>
          /\ pc = "start"
       \/ /\ entry = "generate_pdf_from_week_data"
          /\ \E p \in WDPairs(OneStarts, OneDurations) : week_data = items_of(<<p>>)
          /\ google_events = <<>>
          /\ events = <<>>
          /\ pc = "transform"
       \/ /\ entry = "transform_google_calendar_events"
          /\ \E e \in OneGoogleEvents(week_start) : google_events = <<e>>
          /\ week_data = <<>>
          /\ events = <<>>
          /\ pc = "transform"
    /\ InitRest

\* One event with every combination of title, summary and block height.
TitleLens == {0, 7, 20, 21, 34, 35, 36, 37, 38, 39, 40, 41, 60}
TitlePool == {SNoKey} \cup {SStr("title", n) : n \in TitleLens}
SummaryPool == {SNoKey, SStr("summary", 7), SStr("summary", 45)}
TextPool == {SNoKey, SStr("text", 50)}

TitleEvents(ws) ==
    {Event(DStr(ws + d), TStr(9, 0), TNoKey, en, NNoKey, ti, su, de, SNoKey) :
        d \in {0, 6}, en \in {TStr(9, 30), TStr(10, 0), TStr(12, 0)},
        ti \in TitlePool, su \in SummaryPool, de \in TextPool}
TitleWDPairs ==
    {[day_key |-> dk,
      event |-> Event(DNoKey, TNoKey, TStr(9, 0), TNoKey, du, ti, su, SNoKey, SNoKey)] :
        dk \in WDKeys, du \in {NInt(30), NInt(180)}, ti \in TitlePool, su \in SummaryPool}
TitleGoogleEvents(ws) ==
    {GEvent(GDateTime(ws + d, 9, 0), GDateTime(ws + d, h, 0), su, de, SNoKey) :
        d \in {0, 6}, h \in {10, 12},
        su \in {SNoKey} \cup {SStr("summary", n) : n \in TitleLens}, de \in TextPool}

InitTitle ==
    /\ week_start \in WeekStarts
    /\ \/ /\ entry \in {"generate_calendar_pdf", "simple_generate_calendar_pdf"}
          /\ \E e \in TitleEvents(week_start) : events = <<e>>
          /\ week_data = <<>>
          /\ google_events = <<>>
          /\ pc = "start"
       \/ /\ entry = "generate_pdf_from_week_data"
          /\ \E p \in TitleWDPairs : week_data = items_of(<<p>>)
          /\ google_events = <<>>
          /\ events = <<>>
          /\ pc = "transform"
       \/ /\ entry = "transform_google_calendar_events"
          /\ \E e \in TitleGoogleEvents(week_start) : google_events = <<e>>
          /\ week_data = <<>>
          /\ events = <<>>
          /\ pc = "transform"
    /\ InitRest

\* week_data with every day key, in both spellings, and an unrecognised key
WeekPairs ==
    {[day_key |-> dk, event |-> WDEvent(tm, NNoKey)] :
        dk \in {"monday", "tuesday", "wednesday", "thursday", "friday", "saturday",
                "sunday", "Monday", "TUESDAY", "Sunday", "holiday"},
        tm \in {TNoKey, TStr(10, 0), TTxt}}

InitWeekData ==
    /\ week_start \in WeekStarts
    /\ entry = "generate_pdf_from_week_data"
    /\ \E pairs \in SeqsUpTo(WeekPairs, MaxEvents) :
          /\ Grouped(pairs)
          /\ week_data = items_of(pairs)
    /\ google_events = <<>>
    /\ events = <<>>
    /\ pc = "transform"
    /\ InitRest

Next ==
    \/ generate_pdf_from_week_data
    \/ transform_google_calendar_events
    \/ generate_calendar_pdf_week
    \/ generate_calendar_pdf_day
    \/ generate_calendar_pdf_save
    \/ simple_generate_calendar_pdf_week
    \/ simple_generate_calendar_pdf_day
    \/ simple_generate_calendar_pdf_save

\* event lists of up to MaxEvents events
Spec == Init /\ [][Next]_vars

\* a single event with every combination of its fields
SpecEvent == InitEvent /\ [][Next]_vars

\* a single event with every combination of its texts
SpecTitle == InitTitle /\ [][Next]_vars

NextWeekData ==
    \/ generate_pdf_from_week_data
    \/ generate_calendar_pdf_week
    \/ generate_calendar_pdf_day
    \/ generate_calendar_pdf_save

\* generate_pdf_from_week_data on up to MaxEvents events under any day keys
SpecWeekData == InitWeekData /\ [][NextWeekData]_vars

\* one POST /api/generate-planner-pdf: any startDate text, weekData with
\* times that make the adapter (a text) or the week page (23:00) raise
InitPlanner ==
    /\ entry = "generate_planner_pdf"
    /\ pc = "request"
    /\ week_start = 0
    /\ start_date \in {DStr(ws) : ws \in WeekStarts} \cup {DTxt, DEmpty}
    /\ \E pairs \in SeqsUpTo(WDPairs({TNoKey, TStr(23, 0), TTxt}, WDPoolDurations), MaxEvents) :
          /\ Grouped(pairs)
          /\ week_data = items_of(pairs)
    /\ google_events = <<>>
    /\ events = <<>>
    /\ InitPages
    /\ InitApp

NextPlanner ==
    \/ generate_planner_pdf_request
    \/ generate_pdf_from_week_data
    \/ generate_calendar_pdf_week
    \/ generate_calendar_pdf_day
    \/ generate_calendar_pdf_save
    \/ generate_planner_pdf_return
    \/ generate_planner_pdf_except

SpecPlanner == InitPlanner /\ [][NextPlanner]_vars

\* two POST /api/generate-planner-pdf requests in flight at once
InitConcurrent ==
    /\ entry = "generate_planner_pdf"
    /\ pc = "threads"
    /\ week_start = 0
    /\ week_data = <<>>
    /\ google_events = <<>>
    /\ events = <<>>
    /\ InitPages
    /\ start_date = DNoKey
    /\ response = Response("", <<>>, 0, <<>>)
    /\ session = [state |-> "", credentials |-> ""]
    /\ fetch = [pc |-> "idle"]
    /\ disk = <<>>
    /\ reqs \in [{1, 2} ->
                   [start_date : {DStr(ws) : ws \in WeekStarts},
                    week_data : {"weekData 1", "weekData 2"},
                    pc : {"generate"}, body : {<<>>}, status : {0}]]

NextConcurrent ==
    \E r \in {1, 2} :
        \/ generate_planner_pdf_generate(r)
        \/ generate_planner_pdf_read(r)
        \/ generate_planner_pdf_remove(r)

SpecConcurrent == InitConcurrent /\ [][NextConcurrent]_vars

\* the requests of one browser session, from a new session
InitSession ==
    /\ entry = "app"
    /\ pc = "serving"
    /\ week_start = 0
    /\ week_data = <<>>
    /\ google_events = <<>>
    /\ events = <<>>
    /\ InitRest

NextSession ==
    \/ google_auth
    \/ oauth2callback
    \/ auth_status
    \/ logout
    \/ get_calendars
    \/ get_events
    \/ get_events_chunk
    \/ get_events_return

SpecSession == InitSession /\ [][NextSession]_vars

(***************************************************************************)
(* Properties                                                              *)
(***************************************************************************)
IsMove == entry \in MoveEntries
IsSimple == entry = "simple_generate_calendar_pdf"

Minutes(t) == t[1] * 60 + t[2]

\* the top of row 0 and the row height of the grid drawn on a page
RowsTop(kind) ==
    IF IsSimple
    THEN (IF kind = "week" THEN simple_weekly_y_start ELSE simple_daily_y_start)
    ELSE (IF kind = "week" THEN weekly_grid_top - weekly_header_height
          ELSE daily_grid_top)
RowH(kind) ==
    IF IsSimple
    THEN (IF kind = "week" THEN simple_weekly_row_height ELSE simple_daily_row_height)
    ELSE (IF kind = "week" THEN weekly_row_height ELSE daily_row_height)
RowTop(kind, r) == RowsTop(kind) - r * RowH(kind)

\* left edge of day column d of the week page
ColLeft(d) == weekly_grid_left + weekly_time_col_width + d * weekly_day_col_width

\* the rectangles of event n on page k, as indices into the page's calls
Blocks(k, n) ==
    {c \in DOMAIN pages[k].calls :
        pages[k].calls[c].op = "rect" /\ pages[k].calls[c].ev = n}
AllBlocks(k) == {c \in DOMAIN pages[k].calls : pages[k].calls[c].op = "rect"}

\* the row of the spec's time-to-row mapping
FloorRow(t) == (t[1] - 7) * 2 + (IF t[2] >= 30 THEN 1 ELSE 0)
InWindow(t) == 7 * 60 <= Minutes(t) /\ Minutes(t) < 22 * 60

ParsesHM(f) == f.k = "hm" /\ f.h \in 0..23 /\ f.m \in 0..59

\* the event as the caller gave it: one that came through
\* generate_pdf_from_week_data had no end_time of its own
AsGiven(e) ==
    IF entry = "generate_pdf_from_week_data" THEN [e EXCEPT !.end_time = TNoKey] ELSE e
InWeek(e) == e.date.k = "ymd" /\ e.date.ord - week_start \in 0..6

\* C1: one call emits the week page, then the day pages of week_start+0..6 in
\* ascending order, and only then saves: the pages drawn so far are always a
\* prefix of that order, all but the page being drawn are finalized, the file
\* is saved only with all 8 finalized, and a finalized page (and, after the
\* save, the document) never changes again.
C1_Pages ==
    /\ Len(pages) <= 8
    /\ \A k \in 1..Len(pages) :
          /\ pages[k].kind = (IF k = 1 THEN "week" ELSE "day")
          /\ pages[k].day = k - 1
          /\ pages[k].date = (IF k = 1 THEN week_start ELSE week_start + (k - 2))
          /\ (k < Len(pages) => pages[k].final)
    /\ saved => (Len(pages) = 8 /\ \A k \in 1..8 : pages[k].final)
C1_Step ==
    /\ Len(pages') \in {Len(pages), Len(pages) + 1}
    /\ \A k \in 1..Len(pages) : pages'[k] = pages[k]
    /\ saved => (saved' /\ pages' = pages)
    /\ (saved' /\ ~saved) => pages' = pages
C1_PageOrder == [] C1_Pages /\ [][C1_Step]_vars

\* a saved document in which some event was drawn on a day page
C1_Witness ==
    /\ saved
    /\ Len(pages) = 8
    /\ \E k \in 2..8 : AllBlocks(k) # {}

\* C8: in the Move generator (either entry point) an event dated
\* week_start + d (0 <= d <= 6) whose start_time is on a half-hour boundary
\* inside [07:00, 22:00), with no end_time and duration = 60, has exactly one
\* rectangle on the week page,
\* inside day column d, and exactly one on day page d + 1 and none on the
\* other day pages; the rectangle's top is the top of row
\* (HH-7)*2 + (MM >= 30 ? 1 : 0), whose printed label is the start time, and
\* it covers that row and ends inside the next one (2 rows, less the gap).
C8_Case(e) ==
    /\ InWeek(e)
    /\ ParsesHM(e.start_time)
    /\ e.start_time.m \in {0, 30}
    /\ InWindow(HM(e.start_time.h, e.start_time.m))
    /\ e.end_time.k = "nokey"
    /\ e.duration = NInt(60)
C8_Placed(k, n, e) ==
    LET kind == pages[k].kind
        r == FloorRow(HM(e.start_time.h, e.start_time.m))
        d == e.date.ord - week_start
    IN  /\ Cardinality(Blocks(k, n)) = 1
        /\ \A c \in Blocks(k, n) :
             LET b == pages[k].calls[c]
             IN  /\ b.y + b.h = RowTop(kind, r)
                 /\ RowTop(kind, r + 2) <= b.y
                 /\ b.y < RowTop(kind, r + 1)
                 /\ kind = "week" => (ColLeft(d) < b.x /\ b.x + b.w < ColLeft(d + 1))
        /\ pages[k].labels[r + 1].t = HM(e.start_time.h, e.start_time.m)
        /\ pages[k].labels[r + 1].y < RowTop(kind, r)
        /\ pages[k].labels[r + 1].y > RowTop(kind, r + 1)
C8_HourBlock ==
    IsMove =>
        \A n \in 1..Len(events) :
            C8_Case(AsGiven(events[n])) =>
                \A k \in 1..Len(pages) :
                    pages[k].final =>
                        IF k = 1 \/ k = (events[n].date.ord - week_start) + 2
                        THEN C8_Placed(k, n, events[n])
                        ELSE Blocks(k, n) = {}

\* a finished document with a 21:30 event of 60 minutes drawn on both pages
C8_Witness ==
    /\ IsMove
    /\ pc = "done"
    /\ \E n \in 1..Len(events) :
          /\ C8_Case(AsGiven(events[n]))
          /\ events[n].start_time = TStr(21, 30)
          /\ Blocks(1, n) # {}
          /\ Blocks((events[n].date.ord - week_start) + 2, n) # {}

\* C2: every event rectangle on any page of either generator lies within the
\* rows of the grid (0 <= start_row <= end_row <= 31: its top is not above the
\* top of row 0 and its bottom not below the bottom of the last row) and has
\* a height > 0.
C2_BlocksInGrid ==
    \A k \in 1..Len(pages) :
        \A c \in AllBlocks(k) :
            LET b == pages[k].calls[c]
            IN  /\ b.h > 0
                /\ b.y + b.h <= RowTop(pages[k].kind, 0)
                /\ b.y >= RowTop(pages[k].kind, 31)

\* C3: whatever the time data of the records, generation by the Move
\* generator never aborts, on either entry point.
C3_NeverAborts == IsMove => pc # "raised"

\* C4: an event whose date is missing, empty or unparseable is skipped without
\* raising, and every page is drawn exactly as it is for the input without
\* that record.
BadDate(e) == e.date.k \in {"nokey", "empty", "txt"}
Without(evs, n) == SubSeq(evs, 1, n - 1) \o SubSeq(evs, n + 1, Len(evs))
PageOf(k, evs) ==
    LET date == week_start + (k - 2)
    IN  IF IsSimple
        THEN (IF k = 1 THEN simple_create_weekly_view_with_events(week_start, evs).page
              ELSE simple_create_daily_view_with_events(
                       date, k, evs, simple_day_events_of(evs, 1, date)).page)
        ELSE (IF k = 1 THEN create_weekly_view_with_events(week_start, evs).page
              ELSE create_daily_view_with_events(
                       date, k, evs, day_events_of(evs, 1, date)).page)
Renumbered(page, n) ==
    [page EXCEPT !.calls =
        [c \in DOMAIN page.calls |->
            IF page.calls[c].ev > n
            THEN [page.calls[c] EXCEPT !.ev = @ - 1]
            ELSE page.calls[c]]]
C4_BadDateSkipped ==
    \A n \in 1..Len(events) :
        BadDate(events[n]) =>
            \A k \in 1..Len(pages) :
                /\ Blocks(k, n) = {}
                /\ Renumbered(pages[k], n) = PageOf(k, Without(events, n))

\* C5: the start time an event is placed with is its start_time field, else
\* its time field, parsed as HH:MM, and 09:00 when neither is present or the
\* value does not parse; on no input path is an error raised instead.
ExpectedStart(e) ==
    LET f == IF e.start_time.k # "nokey" THEN e.start_time ELSE e.time
    IN  IF ParsesHM(f) THEN HM(f.h, f.m) ELSE HM(9, 0)
C5_StartTime ==
    IsMove =>
        /\ \A k \in 1..Len(pages) :
              \A c \in AllBlocks(k) :
                  pages[k].calls[c].t1 = ExpectedStart(events[pages[k].calls[c].ev])
        /\ ~(pc = "raised" /\ pages = <<>>)

\* C6: the end time an event is placed with is its end_time when that parses;
\* otherwise, when a duration is present, start + duration minutes with the
\* hour capped at 22; otherwise start + 60 minutes; and the week page and the
\* day page place the same event with the same end time.
ExpectedEnd(e, st) ==
    IF ParsesHM(e.end_time) THEN HM(e.end_time.h, e.end_time.m)
    ELSE IF e.duration.k = "int"
    THEN HM(Min(st[1] + ((st[2] + e.duration.v) \div 60), 22), (st[2] + e.duration.v) % 60)
    ELSE HM(st[1] + ((st[2] + 60) \div 60), (st[2] + 60) % 60)
C6_EndTime ==
    IsMove =>
        \A k \in 1..Len(pages) :
            \A c \in AllBlocks(k) :
                LET b == pages[k].calls[c]
                IN  /\ b.t2 = ExpectedEnd(AsGiven(events[b.ev]), b.t1)
                    /\ \A c1 \in Blocks(1, b.ev) : pages[1].calls[c1].t2 = b.t2

\* C7: every placed event has start <= end, and an event of the week whose
\* start is inside the visible window and whose explicit end_time is earlier
\* than its start is drawn as a one-hour block from its start.
C7_Case(e) ==
    /\ InWeek(e)
    /\ InWindow(ExpectedStart(e))
    /\ ParsesHM(e.end_time)
    /\ Minutes(HM(e.end_time.h, e.end_time.m)) < Minutes(ExpectedStart(e))
C7_Inverted ==
    IsMove =>
        /\ \A k \in 1..Len(pages) :
              \A c \in AllBlocks(k) :
                  Minutes(pages[k].calls[c].t1) <= Minutes(pages[k].calls[c].t2)
        /\ \A n \in 1..Len(events) :
              (C7_Case(AsGiven(events[n])) /\ Len(pages) >= 1 /\ pages[1].final) =>
                  \E c \in Blocks(1, n) :
                      Minutes(pages[1].calls[c].t2) = Minutes(pages[1].calls[c].t1) + 60

\* C9: every block whose start time t is inside [07:00, 22:00) has its top at
\* the top of row floor((hour(t) - 7) * 2 + (minute(t) >= 30 ? 1 : 0)), on
\* every page of either generator.
C9_FloorRow ==
    \A k \in 1..Len(pages) :
        \A c \in AllBlocks(k) :
            LET b == pages[k].calls[c]
            IN  InWindow(b.t1) => b.y + b.h = RowTop(pages[k].kind, FloorRow(b.t1))

\* C10: the Move generator draws a block only for a start time t with
\* 07:00 <= t < 22:00.
C10_HalfOpenWindow ==
    IsMove =>
        \A k \in 1..Len(pages) :
            \A c \in AllBlocks(k) : InWindow(pages[k].calls[c].t1)

\* C11: in the Move generator an event of the week with no end_time and
\* duration = 0 whose start is inside the visible window has a rectangle on the
\* week page and on its day page, and every rectangle drawn for any event has
\* a height > 0.
C11_Case(e) ==
    /\ InWeek(e)
    /\ InWindow(ExpectedStart(e))
    /\ e.end_time.k = "nokey"
    /\ e.duration = NInt(0)
C11_ZeroDuration ==
    IsMove =>
        /\ \A k \in 1..Len(pages) :
              \A c \in AllBlocks(k) : pages[k].calls[c].h > 0
        /\ \A n \in 1..Len(events) :
              C11_Case(AsGiven(events[n])) =>
                  \A k \in {1, (events[n].date.ord - week_start) + 2} :
                      (k <= Len(pages) /\ pages[k].final) => Blocks(k, n) # {}

\* C12: the finished week page of either generator carries, for every weekday
\* column k = 1..7, a link whose target is the anchor key day_k.
C12_WeekLinks ==
    (Len(pages) >= 1 /\ pages[1].final) =>
        \A k \in 1..7 :
            \E c \in DOMAIN pages[1].calls :
                /\ pages[1].calls[c].op = "link"
                /\ pages[1].calls[c].what = day_key(k)

\* C13: every day page (of either generator) carries a link to the anchor
\* weekly_view, and in a saved document every link target used on any page is
\* the key of a bookmark registered in that document, whatever the events.
Links(k) == {c \in DOMAIN pages[k].calls : pages[k].calls[c].op = "link"}
Registered(key) == \E b \in DOMAIN bookmarks : bookmarks[b].key = key
C13_LinksResolve ==
    /\ \A k \in 2..Len(pages) :
          \E c \in Links(k) : pages[k].calls[c].what = "weekly_view"
    /\ saved =>
          \A k \in 1..Len(pages) :
              \A c \in Links(k) : Registered(pages[k].calls[c].what)

\* a saved Move document with an event drawn and all seven back links
C13_Witness ==
    /\ IsMove
    /\ saved
    /\ Len(pages) = 8
    /\ \E k \in 2..8 : AllBlocks(k) # {}
    /\ \A k \in 2..8 : Links(k) # {}

\* C14: in both generators the bookmark weekly_view is registered on page 1
\* and the bookmark day_k (k = 1..7, Monday = 1) on page k + 1, which is the
\* day page of week_start + (k - 1); one bookmark per page drawn, all eight in
\* a saved document, the same for every event list and every week_start.
C14_Key(p) ==
    <<"weekly_view", "day_1", "day_2", "day_3", "day_4", "day_5", "day_6", "day_7">>[p]
C14_AnchorPages ==
    /\ Len(bookmarks) = Len(pages)
    /\ Len(bookmarks) <= 8
    /\ \A p \in DOMAIN bookmarks :
          /\ bookmarks[p].key = C14_Key(p)
          /\ bookmarks[p].page = p
          /\ pages[p].kind = (IF p = 1 THEN "week" ELSE "day")
          /\ p > 1 => pages[p].date = week_start + (p - 2)
    /\ saved => Len(bookmarks) = 8

\* a saved document of the second week with events, all anchors registered
C14_Witness ==
    /\ saved
    /\ week_start = 738893
    /\ Len(events) = MaxEvents
    /\ Len(bookmarks) = 8
    /\ bookmarks[8].key = "day_7"

\* C15: in the Move generator every rectangle of an event is in the week-page
\* column and on the day page of the event's own date (column d and page d + 2
\* for date week_start + d, 0 <= d <= 6), and events whose start is outside
\* the visible window or whose date is outside the week raise no error.
C15_Local ==
    \A k \in 1..Len(pages) :
        \A c \in AllBlocks(k) :
            LET b == pages[k].calls[c]
                e == events[b.ev]
                d == e.date.ord - week_start
            IN  /\ InWeek(e)
                /\ k = 1 => (ColLeft(d) < b.x /\ b.x + b.w < ColLeft(d + 1))
                /\ k > 1 => k = d + 2
C15_Outside(e) == ~InWeek(e) \/ ~InWindow(ExpectedStart(e))
C15_OwnDayOnly ==
    IsMove =>
        /\ C15_Local
        /\ (\A n \in 1..Len(events) : C15_Outside(AsGiven(events[n]))) => pc # "raised"

\* C16: an all-day Google event (start carries only a date) leaves the adapter
\* with start_time 09:00, end_time 17:00 and its date, and when that date is a
\* day of the week it is drawn on the week page and on its day page as exactly
\* one rectangle from the top of row 4 to the top of row 20 (less the gap
\* above the next block), and on no other page.
IsGoogle == entry = "transform_google_calendar_events"
\* position in events of the n-th Google event (those without start are dropped)
Transformed(n) == Cardinality({j \in 1..n : google_events[j].start.k # "none"})
C16_Block(k, n) ==
    /\ Cardinality(Blocks(k, n)) = 1
    /\ \A c \in Blocks(k, n) :
          LET b == pages[k].calls[c]
          IN  /\ b.y + b.h = RowTop(pages[k].kind, 4)
              /\ RowTop(pages[k].kind, 20) <= b.y
              /\ b.y < RowTop(pages[k].kind, 19)
C16_AllDay ==
    (IsGoogle /\ pc \in {"start", "days", "done"}) =>
        \A g \in 1..Len(google_events) :
            google_events[g].start.k = "date" =>
                LET n == Transformed(g)
                    e == events[n]
                IN  /\ n <= Len(events)
                    /\ e.date = google_events[g].start.date
                    /\ e.start_time = TStr(9, 0)
                    /\ e.end_time = TStr(17, 0)
                    /\ InWeek(e) =>
                          \A k \in 1..Len(pages) :
                              pages[k].final =>
                                  IF k = 1 \/ k = (e.date.ord - week_start) + 2
                                  THEN C16_Block(k, n)
                                  ELSE Blocks(k, n) = {}

\* a finished document with an all-day event of Sunday drawn on pages 1 and 8
C16_Witness ==
    /\ IsGoogle
    /\ pc = "done"
    /\ \E g \in 1..Len(google_events) :
          /\ google_events[g].start = GAllDay(DStr(week_start + 6))
          /\ Blocks(1, Transformed(g)) # {}
          /\ Blocks(8, Transformed(g)) # {}

\* C17: the Move generator has no overlap resolution and draws in input order:
\* on every page the calls of an event are exactly those the page gets when
\* the event is the only one in the list, calls of a later event of the list
\* come after those of an earlier one, and two events drawn on a page with the
\* same date and the same start time have rectangles with the same left edge,
\* width and top.
CallsOf(page, n) == SelectSeq(page.calls, LAMBDA c : c.ev = n)
AsOnly(page, n) == [c \in DOMAIN CallsOf(page, 1) |-> [CallsOf(page, 1)[c] EXCEPT !.ev = n]]
C17_SameSlot(k, a, b) ==
    \A ca \in Blocks(k, a) :
        \A cb \in Blocks(k, b) :
            LET ra == pages[k].calls[ca]
                rb == pages[k].calls[cb]
            IN  (events[a].date = events[b].date /\ ra.t1 = rb.t1) =>
                    /\ ra.x = rb.x
                    /\ ra.w = rb.w
                    /\ ra.y + ra.h = rb.y + rb.h
                    /\ a < b => ca < cb
C17_InputOrder ==
    IsMove =>
        \A k \in 1..Len(pages) :
            /\ \A c1, c2 \in DOMAIN pages[k].calls :
                  c1 < c2 => pages[k].calls[c1].ev <= pages[k].calls[c2].ev
            /\ pages[k].final =>
                  \A n \in 1..Len(events) :
                      CallsOf(pages[k], n) = AsOnly(PageOf(k, <<events[n]>>), n)
            /\ \A a, b \in 1..Len(events) : C17_SameSlot(k, a, b)

\* a finished document with two events of one day starting at 09:00, both drawn
\* on the week page and on the day page, the one with the other end time second
C17_Witness ==
    /\ IsMove
    /\ pc = "done"
    /\ Len(events) >= 2
    /\ events[1].date = events[2].date
    /\ events[1].end_time # events[2].end_time
    /\ \E k \in 2..8 :
          /\ \E c1 \in Blocks(1, 1), c2 \in Blocks(1, 2) :
                pages[1].calls[c1].t1 = HM(9, 0) /\ pages[1].calls[c2].t1 = HM(9, 0)
          /\ \E c1 \in Blocks(k, 1), c2 \in Blocks(k, 2) : c1 < c2

\* C18: no step of the adapters or of generate_calendar_pdf changes the
\* caller's input (the Google events, the week data, the event list and its
\* records); the list an adapter produced is the one a second call on the
\* caller's input gives; and the two renderers resolve the same start and end
\* time for an event.
C18_Step ==
    /\ google_events' = google_events
    /\ week_data' = week_data
    /\ pc # "transform" => events' = events
C18_SecondCall ==
    /\ (IsGoogle /\ pc \in {"start", "days", "done"}) =>
          events = transform_google_events_loop(google_events, 1, <<>>).calls
    /\ (entry = "generate_pdf_from_week_data" /\ pc \in {"start", "days", "done"}) =>
          events = week_data_items(week_data, 1, week_start, <<>>).events
C18_SameTimes ==
    IsMove =>
        \A k \in 2..Len(pages) :
            \A c \in AllBlocks(k) :
                \A c1 \in Blocks(1, pages[k].calls[c].ev) :
                    /\ pages[1].calls[c1].t1 = pages[k].calls[c].t1
                    /\ pages[1].calls[c1].t2 = pages[k].calls[c].t2
C18_Pure == [](C18_SecondCall /\ C18_SameTimes) /\ [][C18_Step]_vars

\* a finished document made from a Google event, drawn on two pages
C18_Witness ==
    /\ IsGoogle
    /\ pc = "done"
    /\ Len(google_events) = 1
    /\ google_events[1].summary.k = "nokey"
    /\ Blocks(1, 1) # {}
    /\ \E k \in 2..8 : Blocks(k, 1) # {}

\* C19: the title is the event's title field, else its summary field, else
\* "Untitled": every title text the Move generator draws is (a prefix of)
\* that string, and each adapter hands on that string as the title.
C19_Title(e) == get(e.title, get(e.summary, SStr("Untitled", 8)))
C19_TitleFallback ==
    /\ entry = "generate_calendar_pdf" =>
          \A k \in 1..Len(pages) :
              \A c \in DOMAIN pages[k].calls :
                  pages[k].calls[c].what = "title" =>
                      pages[k].calls[c].id = C19_Title(events[pages[k].calls[c].ev]).id
    /\ (entry = "generate_pdf_from_week_data" /\ pc = "start"
          /\ Len(week_data) = 1 /\ Len(events) = 1) =>
          events[1].title = C19_Title(week_data[1].day_events[1])
    /\ (IsGoogle /\ pc = "start" /\ Len(google_events) = 1 /\ Len(events) = 1) =>
          events[1].title = get(google_events[1].summary, SStr("Untitled", 8))

\* C20: on each page of the Move generator the title text of an event is
\* the title unchanged when its length is within the page's character budget
\* (derived from the width of the event's block), and otherwise a proper
\* prefix of it followed by full stops, of a total length within the budget.
C20_Budget(kind, w) ==
    IF kind = "week" THEN (10 * w) \div (13 * pt) ELSE (2 * (w - 2 * mm)) \div (3 * mm)
C20_Truncation ==
    IsMove =>
        \A k \in 1..Len(pages) :
            \A c \in DOMAIN pages[k].calls :
                LET t == pages[k].calls[c]
                    title == IF pages[k].kind = "week" THEN weekly_title(events[t.ev])
                             ELSE daily_title(events[t.ev])
                IN  t.what = "title" =>
                        \A cb \in Blocks(k, t.ev) :
                            LET budget == C20_Budget(pages[k].kind, pages[k].calls[cb].w)
                            IN  /\ t.id = title.id
                                /\ title.len <= budget => (t.len = title.len /\ t.dots = 0)
                                /\ title.len > budget =>
                                      /\ t.len < title.len
                                      /\ t.dots > 0
                                      /\ t.len + t.dots <= budget

\* a finished document with a title longer than both budgets, cut on the week
\* page and on the day page
C20_Witness ==
    /\ IsMove
    /\ pc = "done"
    /\ \E k \in 2..8 :
          \E c1 \in DOMAIN pages[1].calls, c2 \in DOMAIN pages[k].calls :
              /\ pages[1].calls[c1].what = "title" /\ pages[1].calls[c1].dots > 0
              /\ pages[k].calls[c2].what = "title" /\ pages[k].calls[c2].dots > 0

\* C22: for every event dated within the week whose start time is inside the
\* visible window, the week page and the event's day page of the Move
\* generator each hold exactly one rectangle and exactly one title text of
\* the event, whatever the height of the block.
Titles(k, n) ==
    {c \in DOMAIN pages[k].calls :
        pages[k].calls[c].what = "title" /\ pages[k].calls[c].ev = n}
C22_RectAndTitle ==
    IsMove =>
        \A n \in 1..Len(events) :
            LET e == AsGiven(events[n])
            IN  (InWeek(e) /\ InWindow(ExpectedStart(e))) =>
                    \A k \in {1, (e.date.ord - week_start) + 2} :
                        (k <= Len(pages) /\ pages[k].final) =>
                            /\ Cardinality(Blocks(k, n)) = 1
                            /\ Cardinality(Titles(k, n)) = 1

\* C23: for every event dated within the week the Move generator draws a
\* block on the week page if and only if it draws one on the event's day page,
\* and the two blocks start at the same slot and span the same number of
\* slots (positions and heights in proportion to the two row heights).
\* a length on a page of the given kind, in minutes of the grid (30 per row)
C23_Minutes(kind, v) == (v * 30) \div RowH(kind)
C23_Agree(n, k) ==
    /\ (Blocks(1, n) # {}) <=> (Blocks(k, n) # {})
    /\ \A c1 \in Blocks(1, n) :
          \A c2 \in Blocks(k, n) :
              LET b1 == pages[1].calls[c1]
                  b2 == pages[k].calls[c2]
              IN  /\ C23_Minutes("week", RowsTop("week") - (b1.y + b1.h))
                        = C23_Minutes("day", RowsTop("day") - (b2.y + b2.h))
                  /\ C23_Minutes("week", b1.h + (mm \div 2)) = C23_Minutes("day", b2.h + mm)
C23_PagesAgree ==
    IsMove =>
        \A n \in 1..Len(events) :
            InWeek(events[n]) =>
                LET k == (events[n].date.ord - week_start) + 2
                IN  (k <= Len(pages) /\ pages[k].final) => C23_Agree(n, k)

\* C24: transform_google_calendar_events never raises on events that lack a
\* start, a start key or the end key, and returns, in input order, one record
\* for every event whose start has dateTime or date (and the end key it needs)
\* and none for the others, so never more records than events.
C24_Malformed(g) == g.start.k = "bad" \/ (g.start.k = "dateTime" /\ g.end.k = "bad")
C24_Kept(g) ==
    \/ g.start.k = "date"
    \/ g.start.k = "dateTime" /\ g.end.k = "dateTime"
C24_Index(n) == Cardinality({j \in 1..n : C24_Kept(google_events[j])})
C24_SkipsWithoutRaising ==
    (IsGoogle /\ pc # "transform"
       /\ \A n \in 1..Len(google_events) : ~C24_Malformed(google_events[n])) =>
        /\ ~(pc = "raised" /\ pages = <<>>)
        /\ Len(events) <= Len(google_events)
        /\ Len(events) = C24_Index(Len(google_events))
        /\ \A n \in 1..Len(google_events) :
              C24_Kept(google_events[n]) =>
                  events[C24_Index(n)].date = google_events[n].start.date

\* C29: when generate_pdf_from_week_data hands its list to generate_calendar_pdf,
\* the list holds exactly the events listed under the keys monday .. sunday (in
\* any letter case), in the order listed, each with the date week_start + 0 .. 6
\* of its key and with its own time; each is drawn only in that day's week
\* column and on that day's page, every rectangle belongs to one of them, and
\* events under any other key are in the list and on the pages nowhere.
C29_Names ==
    <<{"monday", "Monday"}, {"tuesday", "TUESDAY"}, {"wednesday"}, {"thursday"},
      {"friday"}, {"saturday"}, {"sunday", "Sunday"}>>
C29_Day(key) ==
    IF \E d \in 1..7 : key \in C29_Names[d]
    THEN (CHOOSE d \in 1..7 : key \in C29_Names[d]) - 1
    ELSE -1
C29_Listed ==
    UNION {{<<k, j>> : j \in DOMAIN week_data[k].day_events} : k \in DOMAIN week_data}
C29_Recognised == {kj \in C29_Listed : C29_Day(week_data[kj[1]].day_key) >= 0}
C29_Rank(kj) ==
    Cardinality({p \in C29_Recognised :
                    p[1] < kj[1] \/ (p[1] = kj[1] /\ p[2] <= kj[2])})
C29_Returned ==
    /\ entry = "generate_pdf_from_week_data"
    /\ pc # "transform"
    /\ ~(pc = "raised" /\ pages = <<>>)
C29_DayKeys ==
    C29_Returned =>
        /\ Len(events) = Cardinality(C29_Recognised)
        /\ \A kj \in C29_Recognised :
              LET n == C29_Rank(kj)
                  d == C29_Day(week_data[kj[1]].day_key)
                  given == week_data[kj[1]].day_events[kj[2]]
              IN  /\ events[n].date = DStr(week_start + d)
                  /\ events[n].start_time = get(given.time, TStr(9, 0))
                  /\ \A k \in 1..Len(pages) :
                        /\ Blocks(k, n) # {} => k \in {1, d + 2}
                        /\ k = 1 =>
                             \A c \in Blocks(1, n) :
                                 /\ ColLeft(d) < pages[1].calls[c].x
                                 /\ pages[1].calls[c].x + pages[1].calls[c].w < ColLeft(d + 1)
        /\ \A k \in 1..Len(pages) : \A c \in AllBlocks(k) :
              pages[k].calls[c].ev \in 1..Len(events)
C29_Witness ==
    /\ C29_Returned
    /\ pc = "done"
    /\ \E k \in DOMAIN week_data : week_data[k].day_key = "holiday"
    /\ \E k \in DOMAIN week_data : week_data[k].day_key = "Sunday"
    /\ Len(events) = 1
    /\ Blocks(1, 1) # {}
    /\ Blocks(8, 1) # {}

\* C30: on the week page of the Move generator every event rectangle lies
\* strictly inside the day column of its event's date (column left < rectangle
\* left, rectangle right < column right), for each day offset 0 .. 6; the time
\* column and the seven day columns end exactly at the right grid border, so
\* no rectangle crosses the outer border and rectangles of different days are
\* disjoint.
C30_Offset(n) == strptime_Ymd(events[n].date).ord - week_start
C30_Left(c) == pages[1].calls[c].x
C30_Right(c) == pages[1].calls[c].x + pages[1].calls[c].w
C30_InsideColumn ==
    (IsMove /\ Len(pages) >= 1) =>
        /\ ColLeft(7) = weekly_grid_right
        /\ \A c \in AllBlocks(1) :
              LET d == C30_Offset(pages[1].calls[c].ev)
              IN  /\ d \in 0..6
                  /\ ColLeft(d) < C30_Left(c)
                  /\ C30_Left(c) < C30_Right(c)
                  /\ C30_Right(c) < ColLeft(d + 1)
                  /\ weekly_grid_left < C30_Left(c)
                  /\ C30_Right(c) < weekly_grid_right
        /\ \A c1, c2 \in AllBlocks(1) :
              C30_Offset(pages[1].calls[c1].ev) < C30_Offset(pages[1].calls[c2].ev)
                  => C30_Right(c1) < C30_Left(c2)
C30_Witness ==
    /\ IsMove
    /\ pc = "done"
    /\ \E c1, c2 \in AllBlocks(1) :
          /\ C30_Offset(pages[1].calls[c1].ev) = 5
          /\ C30_Offset(pages[1].calls[c2].ev) = 6

\* C21: one generation call through /api/generate-planner-pdf either ends with
\* a finished 8-page document or fails outright: the file exists only once the
\* week page and all seven day pages are finalized, a call that raised left no
\* file, the response carries PDF bytes only with status 200 and then exactly
\* the finished 8 pages, and a call that raised is answered with status 500
\* and no PDF bytes.
C21_Finished(doc) == Len(doc) = 8 /\ \A k \in 1..8 : doc[k].final
C21_AllOrNothing ==
    entry = "generate_planner_pdf" =>
        /\ saved => C21_Finished(pages)
        /\ pc \in {"raised", "failed"} => ~saved
        /\ response.body # <<>> => (response.status = 200 /\ C21_Finished(response.body))
        /\ pc = "returned" => (response.status = 200 /\ response.body = pages)
        /\ pc = "failed" => (response.status = 500 /\ response.body = <<>>)
C21_Witness ==
    /\ entry = "generate_planner_pdf"
    /\ pc = "failed"
    /\ Len(pages) = 1
    /\ ~pages[1].final
    /\ response.status = 500

\* C25: of two /api/generate-planner-pdf requests with the same startDate that
\* are served at the same time, neither is answered with an error, each one
\* that read its file read the document generated from its own weekData, and
\* the file a request has written is still there, with that content, until
\* that request itself removes it.
C25_Own(r) ==
    [week_data |-> reqs[r].week_data, week_start |-> reqs[r].start_date.ord]
C25_Isolated ==
    (DOMAIN reqs = {1, 2} /\ reqs[1].start_date = reqs[2].start_date) =>
        \A r \in {1, 2} :
            /\ reqs[r].status # 500
            /\ reqs[r].body # <<>> => reqs[r].body = C25_Own(r)
            /\ reqs[r].pc \in {"read", "remove"} =>
                  /\ pdf_filename(reqs[r].start_date) \in DOMAIN disk
                  /\ disk[pdf_filename(reqs[r].start_date)] = C25_Own(r)

\* C26: in the chunk loop of /api/events with full_range=true, for every
\* time_min earlier than time_max (default or given, ending in Z or +00:00),
\* every events().list request covers a non-empty span that ends strictly
\* later than the span of the request before it, so that the requests are at
\* most one per started 365 days of the range and the loop ends.
C26_ChunksAdvance ==
    (fetch.pc # "idle" /\ fetch.time_min.t < fetch.time_max.t) =>
        /\ \A k \in 1..Len(fetch.chunks) :
              /\ fetch.chunks[k].timeMin < fetch.chunks[k].timeMax
              /\ k > 1 => fetch.chunks[k - 1].timeMax < fetch.chunks[k].timeMax
        /\ (Len(fetch.chunks) - 1) * 365 * 86400 < fetch.time_max.t - fetch.time_min.t

\* C27: /oauth2callback stores credentials in the session only when the state
\* argument of the request equals the state that /auth/google stored in that
\* session; a callback with a missing or different state stores none.
C27_StateChecked ==
    [][(session'.credentials # session.credentials /\ session'.credentials # "")
          => /\ response'.endpoint = "oauth2callback"
             /\ session.state # ""
             /\ response'.args.state = session.state]_vars

\* C28: /api/calendars and /api/events go past their guard (to the Google API)
\* only in a session that holds credentials, which only a callback whose token
\* exchange succeeded stores; without credentials they answer 401 and make no
\* request; /auth/logout leaves the session without credentials, and
\* /auth/status reports exactly whether the session holds them.
C28_Step ==
    /\ (response' # response /\ response'.endpoint \in {"get_calendars", "get_events"})
          => /\ (session.credentials = "") <=> (response'.status = 401)
             /\ session.credentials = "" => (response'.body = <<>> /\ fetch'.pc = "idle")
    /\ fetch'.pc # "idle" => session'.credentials # ""
    /\ (session.credentials = "" /\ session'.credentials # "")
          => /\ response'.endpoint = "oauth2callback"
             /\ response'.status = 302
             /\ session'.credentials = response'.args.code
    /\ response'.endpoint = "logout" => session'.credentials = ""
    /\ response'.endpoint = "auth_status"
          => response'.body = <<session'.credentials # "">>
C28_Guarded == [][C28_Step]_vars
C28_Witness ==
    /\ response.endpoint = "get_events"
    /\ response.status = 200
    /\ Len(response.body) > 1
    /\ session.credentials = "code 2"

====
